---- MODULE Spec2Model ----
(***************************************************************************)
(* Seshat Swarm coordination core: world model, blast radius, constraint  *)
(* engine, role assignment and the coordinator tick.                       *)
(*                                                                         *)
(* Conventions of the model                                                *)
(*  - battery.percentage, position_quality and the floors/thresholds they  *)
(*    are compared with are per-mille integers (0.15 is 150).              *)
(*  - positions are integer vectors drawn from a set whose pairwise        *)
(*    distances and norms are integers, so vec3Distance is exact.          *)
(*  - a pattern id is a sequence of characters (one-character strings);    *)
(*    the empty id "" is << >>.                                            *)
(*  - a JS Map or Set is a sequence of distinct keys (insertion order)     *)
(*    plus, for a Map, a function on those keys.                           *)
(***************************************************************************)
EXTENDS Integers, Sequences, FiniteSets, TLC

\* ------------------------------------------------------------------------
\* Generic helpers
\* ------------------------------------------------------------------------

Range(s) == { s[i] : i \in 1..Len(s) }

\* Set.add on an insertion-ordered set
SetAdd(s, x) == IF x \in Range(s) THEN s ELSE Append(s, x)

RECURSIVE SetAddAll(_, _)
SetAddAll(s, xs) ==
  IF xs = << >> THEN s ELSE SetAddAll(SetAdd(s, Head(xs)), Tail(xs))

Abs(n) == IF n < 0 THEN -n ELSE n

\* Math.sqrt on the perfect squares the position set produces
Sqrt(n) == CHOOSE r \in 0..n : r * r = n

NULL == "null"

\* const x = v; then F(x): v is computed once
Bind(v, F(_)) == CHOOSE result \in { F(x) : x \in { v } } : TRUE

\* ------------------------------------------------------------------------
\* Dimension enums
\* ------------------------------------------------------------------------

BEHAVIORAL_MODES ==
  << "hover", "translate", "orbit", "avoid", "climb", "descend", "land",
     "takeoff", "dock", "undock", "grounded", "docked", "formation-hold",
     "formation-transition", "relay-hold" >>

FORMATION_ROLES ==
  << "leader", "follower", "relay", "performer", "charger-inbound",
     "charging", "charger-outbound", "scout", "anchor", "reserve" >>

\* ------------------------------------------------------------------------
\* Fiber bundle dependencies
\* ------------------------------------------------------------------------

AllTraits ==
  << "bare", "solar-equipped", "battery-carrier", "camera-equipped",
     "sensor-extended", "dual-deck" >>

VALID_TRAITS(rho) ==
  CASE rho = "crazyflie-2.1" -> AllTraits
    [] rho = "crazyflie-bl"  -> << "bare", "camera-equipped", "sensor-extended" >>
    [] rho = "esp-drone"     -> << "bare", "camera-equipped" >>
    [] rho = "sim-gazebo"    -> AllTraits
    [] rho = "sim-simple"    -> AllTraits

EXCLUDED_MODES(tau) ==
  CASE tau = "bare"             -> << >>
    [] tau = "solar-equipped"   -> << "orbit" >>
    [] tau = "battery-carrier"  -> << "orbit" >>
    [] tau = "camera-equipped"  -> << >>
    [] tau = "sensor-extended"  -> << >>
    [] tau = "dual-deck"        -> << "orbit" >>

EXCLUDED_MODES_BY_HARDWARE(rho) ==
  CASE rho = "crazyflie-2.1" -> << >>
    [] rho = "crazyflie-bl"  -> << >>
    [] rho = "esp-drone"     -> << "dock", "undock", "docked" >>
    [] rho = "sim-gazebo"    -> << >>
    [] rho = "sim-simple"    -> << "dock", "undock", "docked" >>

getValidModes(rho, tau) ==
  LET keep(mode) == /\ mode \notin Range(EXCLUDED_MODES(tau))
                    /\ mode \notin Range(EXCLUDED_MODES_BY_HARDWARE(rho))
  IN  SelectSeq(BEHAVIORAL_MODES, keep)

EXCLUDED_ROLES(tau) ==
  CASE tau = "bare"             -> << >>
    [] tau = "solar-equipped"   -> << "scout" >>
    [] tau = "battery-carrier"  -> << "scout" >>
    [] tau = "camera-equipped"  -> << >>
    [] tau = "sensor-extended"  -> << >>
    [] tau = "dual-deck"        -> << "scout" >>

\* CAPABILITY_ROLE_REQUIREMENTS is the empty array: no capability exclusions
getValidRoles(tau) ==
  LET keep(role) == role \notin Range(EXCLUDED_ROLES(tau))
  IN  SelectSeq(FORMATION_ROLES, keep)

ROLE_OWNERSHIP(chi) ==
  CASE chi = "leader"           -> << "exclusive-volume" >>
    [] chi = "follower"         -> << "shared-corridor" >>
    [] chi = "relay"            -> << "exclusive-volume", "comm-bridge" >>
    [] chi = "performer"        -> << "shared-corridor", "exclusive-volume" >>
    [] chi = "charger-inbound"  -> << "shared-corridor", "yielding" >>
    [] chi = "charging"         -> << "energy-consumer" >>
    [] chi = "charger-outbound" -> << "shared-corridor" >>
    [] chi = "scout"            -> << "exclusive-volume" >>
    [] chi = "anchor"           -> << "exclusive-volume" >>
    [] chi = "reserve"          -> << "shared-corridor", "yielding" >>

getValidOwnerships(chi) == ROLE_OWNERSHIP(chi)

\* Returns NULL if valid, else a tag naming the first violated rule
validateDependencies(rho, tau, sigma, chi, lambda) ==
  IF tau \notin Range(VALID_TRAITS(rho)) THEN "tau-for-rho"
  ELSE IF sigma \notin Range(getValidModes(rho, tau)) THEN "sigma-for-rho-tau"
  ELSE IF chi \notin Range(getValidRoles(tau)) THEN "chi-for-tau"
  ELSE IF lambda \notin Range(getValidOwnerships(chi)) THEN "lambda-for-chi"
  ELSE NULL

\* ------------------------------------------------------------------------
\* Transition matrix
\* ------------------------------------------------------------------------

TR(f, t, v) == [from |-> f, to |-> t, valid |-> v]

TRANSITION_RULES ==
  << TR("*", "avoid", TRUE),
     TR("grounded", "takeoff", TRUE),
     TR("grounded", "hover", FALSE),
     TR("grounded", "translate", FALSE),
     TR("grounded", "orbit", FALSE),
     TR("takeoff", "hover", TRUE),
     TR("hover", "translate", TRUE),
     TR("hover", "orbit", TRUE),
     TR("hover", "climb", TRUE),
     TR("hover", "descend", TRUE),
     TR("hover", "land", TRUE),
     TR("hover", "dock", TRUE),
     TR("hover", "formation-hold", TRUE),
     TR("hover", "relay-hold", TRUE),
     TR("translate", "hover", TRUE),
     TR("translate", "dock", TRUE),
     TR("translate", "relay-hold", TRUE),
     TR("translate", "orbit", TRUE),
     TR("translate", "climb", TRUE),
     TR("translate", "descend", TRUE),
     TR("translate", "formation-hold", TRUE),
     TR("orbit", "hover", TRUE),
     TR("orbit", "translate", TRUE),
     TR("avoid", "hover", TRUE),
     TR("avoid", "land", TRUE),
     TR("climb", "hover", TRUE),
     TR("climb", "translate", TRUE),
     TR("climb", "descend", TRUE),
     TR("descend", "hover", TRUE),
     TR("descend", "translate", TRUE),
     TR("descend", "land", TRUE),
     TR("land", "grounded", TRUE),
     TR("dock", "docked", TRUE),
     TR("docked", "undock", TRUE),
     TR("undock", "hover", TRUE),
     TR("undock", "translate", TRUE),
     TR("formation-hold", "translate", TRUE),
     TR("formation-hold", "hover", TRUE),
     TR("formation-hold", "formation-transition", TRUE),
     TR("formation-transition", "formation-hold", TRUE),
     TR("formation-transition", "hover", TRUE),
     TR("relay-hold", "hover", TRUE),
     TR("relay-hold", "translate", TRUE) >>

\* An optional value (T | null, T | undefined) is << >> or << v >>
None == << >>
Some(v) == << v >>

\* Array.prototype.find: the first element satisfying the test, if any
FindFirst(s, test(_)) ==
  IF \E i \in 1..Len(s) : test(s[i])
  THEN Some(s[CHOOSE i \in 1..Len(s) : test(s[i]) /\ \A j \in 1..(i - 1) : ~test(s[j])])
  ELSE None

findTransitionRule(from, to) ==
  LET isExact(r) == r.from = from /\ r.to = to
      isWildFrom(r) == r.from = "*" /\ r.to = to
      isWildTo(r) == r.from = from /\ r.to = "*"
      exact == FindFirst(TRANSITION_RULES, isExact)
      wildcardFrom == FindFirst(TRANSITION_RULES, isWildFrom)
      wildcardTo == FindFirst(TRANSITION_RULES, isWildTo)
  IN  IF exact # None THEN exact
      ELSE IF wildcardFrom # None THEN wildcardFrom
      ELSE IF wildcardTo # None THEN wildcardTo
      ELSE None

\* Variant: the valid flag of the rule is read inverted
isTransitionValid_FlagInverted(from, to) ==
  IF from = to THEN TRUE
  ELSE LET rule == findTransitionRule(from, to)
       IN  rule # None /\ ~rule[1].valid

isTransitionValid(from, to) ==
  IF from = to THEN TRUE
  ELSE LET rule == findTransitionRule(from, to)
       IN  rule # None /\ rule[1].valid

\* ------------------------------------------------------------------------
\* Catalog lookup
\* ------------------------------------------------------------------------

\* A catalog is [patterns: sequence of patterns in Map insertion order,
\* compatibility: sequence of rules]; the Map key of a pattern is its id.

\* Variant: a lookup that answers an unknown id with the first pattern of the
\* catalog instead of undefined
lookupPattern_OrFirst(catalog, id) ==
  LET hasId(p) == p.id = id
      found == FindFirst(catalog.patterns, hasId)
  IN  IF found = None /\ Len(catalog.patterns) > 0
      THEN Some(catalog.patterns[1]) ELSE found

lookupPattern(catalog, id) ==
  LET hasId(p) == p.id = id
  IN  FindFirst(catalog.patterns, hasId)

\* partial: a record whose absent (undefined) fields are NULL
filterByCore(catalog, partial) ==
  LET matches(pattern) ==
        /\ ~(partial.sigma # NULL /\ pattern.core.sigma # partial.sigma)
        /\ ~(partial.kappa # NULL /\ pattern.core.kappa # partial.kappa)
        /\ ~(partial.chi # NULL /\ pattern.core.chi # partial.chi)
        /\ ~(partial.lambda # NULL /\ pattern.core.lambda # partial.lambda)
        /\ ~(partial.tau # NULL /\ pattern.core.tau # partial.tau)
        /\ ~(partial.rho # NULL /\ pattern.core.rho # partial.rho)
  IN  SelectSeq(catalog.patterns, matches)

Partial(sigma, rho, tau) ==
  [sigma |-> sigma, kappa |-> NULL, chi |-> NULL, lambda |-> NULL,
   tau |-> tau, rho |-> rho]

\* String.prototype.split('*'): the literal segments between the stars
RECURSIVE SplitStar(_, _)
SplitStar(s, cur) ==
  IF s = << >> THEN << cur >>
  ELSE IF Head(s) = "*" THEN << cur >> \o SplitStar(Tail(s), << >>)
       ELSE SplitStar(Tail(s), Append(cur, Head(s)))

startsWith(s, seg) == Len(seg) <= Len(s) /\ SubSeq(s, 1, Len(seg)) = seg

endsWith(s, seg) ==
  Len(seg) <= Len(s) /\ SubSeq(s, Len(s) - Len(seg) + 1, Len(s)) = seg

\* String.prototype.indexOf(seg, from), 0-based, -1 if absent
indexOf(s, seg, from) ==
  LET at(i) == SubSeq(s, i + 1, i + Len(seg)) = seg
      hits == { i \in from..(Len(s) - Len(seg)) : at(i) }
  IN  IF hits = {} THEN -1 ELSE CHOOSE i \in hits : \A j \in hits : i <= j

\* The loop over the middle segments: returns the final searchFrom, or -1
\* as soon as a segment is not found
RECURSIVE MiddleSegments(_, _, _, _)
MiddleSegments(patternId, segments, i, searchFrom) ==
  IF i > Len(segments) - 1 THEN searchFrom
  ELSE IF segments[i] = << >>
       THEN MiddleSegments(patternId, segments, i + 1, searchFrom)
       ELSE LET idx == indexOf(patternId, segments[i], searchFrom)
            IN  IF idx = -1 THEN -1
                ELSE MiddleSegments(patternId, segments, i + 1,
                                    idx + Len(segments[i]))

matchesPattern(patternId, rulePattern) ==
  IF rulePattern = << "*" >> THEN TRUE
  ELSE IF "*" \in Range(rulePattern)
  THEN LET segments == SplitStar(rulePattern, << >>)
           lastSegment == segments[Len(segments)]
           mustMatchSuffix == lastSegment # << >>
           prefixOk == segments[1] = << >> \/ startsWith(patternId, segments[1])
           searchFrom0 == IF segments[1] # << >> THEN Len(segments[1]) ELSE 0
           searchFrom == MiddleSegments(patternId, segments, 2, searchFrom0)
       IN  /\ prefixOk
           /\ searchFrom # -1
           /\ mustMatchSuffix =>
                /\ endsWith(patternId, lastSegment)
                /\ ~(Len(patternId) - Len(lastSegment) < searchFrom)
  ELSE patternId = rulePattern

\* Variant: every rule has the same specificity
ruleSpecificity_Flat(rule) == 0

ruleSpecificity(rule) ==
  (IF rule.pattern_a = << "*" >> THEN 0
   ELSE IF "*" \in Range(rule.pattern_a) THEN 1 ELSE 2)
  +
  (IF rule.pattern_b = << "*" >> THEN 0
   ELSE IF "*" \in Range(rule.pattern_b) THEN 1 ELSE 2)

\* The loop over catalog.compatibility: best is None or Some(rule)
RECURSIVE BestRule(_, _, _, _, _)

\* Variant: a rule matches in the order (pattern_a, pattern_b) only
BestRule_ForwardOnly(rules, patternA, patternB, bestRule, bestSpecificity) ==
  IF rules = << >> THEN bestRule
  ELSE LET rule == Head(rules)
           matchForward == /\ matchesPattern(patternA, rule.pattern_a)
                           /\ matchesPattern(patternB, rule.pattern_b)
           spec == ruleSpecificity(rule)
       IN  IF matchForward /\ spec > bestSpecificity
           THEN BestRule(Tail(rules), patternA, patternB, Some(rule), spec)
           ELSE BestRule(Tail(rules), patternA, patternB, bestRule,
                         bestSpecificity)

BestRule(rules, patternA, patternB, bestRule, bestSpecificity) ==
  IF rules = << >> THEN bestRule
  ELSE LET rule == Head(rules)
           matchForward == /\ matchesPattern(patternA, rule.pattern_a)
                           /\ matchesPattern(patternB, rule.pattern_b)
           matchReverse == /\ matchesPattern(patternA, rule.pattern_b)
                           /\ matchesPattern(patternB, rule.pattern_a)
           spec == ruleSpecificity(rule)
       IN  IF (matchForward \/ matchReverse) /\ spec > bestSpecificity
           THEN BestRule(Tail(rules), patternA, patternB, Some(rule), spec)
           ELSE BestRule(Tail(rules), patternA, patternB, bestRule,
                         bestSpecificity)

\* separation_m and min_separation_m are integer distances
isCompatible(catalog, patternA, patternB, separation_m) ==
  LET bestRule == BestRule(catalog.compatibility, patternA, patternB, None, -1)
  IN  IF bestRule = None THEN TRUE
      ELSE IF ~bestRule[1].compatible THEN FALSE
      ELSE separation_m >= bestRule[1].min_separation_m

isPatternTransitionValid(catalog, fromId, toId) ==
  LET fromPattern == lookupPattern(catalog, fromId)
      toPattern == lookupPattern(catalog, toId)
  IN  IF fromPattern = None \/ toPattern = None THEN FALSE
      ELSE IF toId \notin Range(fromPattern[1].postconditions.valid_to) THEN FALSE
      ELSE IF fromId \notin Range(toPattern[1].preconditions.valid_from) THEN FALSE
      ELSE LET sigmaRule == findTransitionRule(fromPattern[1].core.sigma,
                                               toPattern[1].core.sigma)
           IN  IF sigmaRule = None \/ ~sigmaRule[1].valid THEN FALSE
               ELSE TRUE

\* ------------------------------------------------------------------------
\* World model
\* ------------------------------------------------------------------------

\* A world is [config, order, drones]: order is the key order of the
\* drones Map and drones a function on those keys.

Vec3(x, y, z) == [x |-> x, y |-> y, z |-> z]

\* Euclidean distance; the position set makes every argument of Sqrt a
\* perfect square
vec3Distance(a, b) ==
  LET dx == a.x - b.x
      dy == a.y - b.y
      dz == a.z - b.z
  IN  Sqrt(dx * dx + dy * dy + dz * dz)

getDrone(world, id) ==
  IF id \in DOMAIN world.drones THEN Some(world.drones[id]) ELSE None

EmptyGraph ==
  [neighbors |-> << >>, leader |-> NULL, followers |-> << >>,
   relay_target |-> NULL, relay_source |-> NULL, dock_target |-> NULL,
   base_stations |-> << >>]

\* The loop of computeNeighborGraph over the drones Map, in Map order
RECURSIVE NeighborLoop(_, _, _, _, _)
NeighborLoop(world, droneId, position, rest, g) ==
  IF rest = << >> THEN g
  ELSE LET otherId == Head(rest)
           other == world.drones[otherId]
           myDrone == getDrone(world, droneId)
           inRange == vec3Distance(position, other.lastTelemetry.position)
                        <= world.config.commRange
           myChi == IF myDrone = None THEN NULL ELSE myDrone[1].coordinate.chi
           g1 == [g EXCEPT !.neighbors = Append(@, otherId)]
           g2 == IF myChi = "follower" /\ other.coordinate.chi = "leader"
                 THEN [g1 EXCEPT !.leader = otherId] ELSE g1
           g3 == IF myChi = "leader" /\ other.coordinate.chi = "follower"
                 THEN [g2 EXCEPT !.followers = Append(@, otherId)] ELSE g2
           g4 == IF myChi = "relay"
                 THEN [g3 EXCEPT !.relay_target = otherId] ELSE g3
           g5 == IF other.coordinate.chi = "relay"
                 THEN [g4 EXCEPT !.relay_source = otherId] ELSE g4
       IN  IF otherId = droneId
           THEN NeighborLoop(world, droneId, position, Tail(rest), g)
           ELSE IF ~inRange
           THEN NeighborLoop(world, droneId, position, Tail(rest), g)
           ELSE IF myDrone = None
           THEN NeighborLoop(world, droneId, position, Tail(rest), g1)
           ELSE NeighborLoop(world, droneId, position, Tail(rest), g5)

\* Variant: the loop passes over the drones that are stale
computeNeighborGraph_SkipStale(world, droneId, position) ==
  NeighborLoop(world, droneId, position,
               SelectSeq(world.order, LAMBDA j : ~world.drones[j].stale),
               EmptyGraph)

computeNeighborGraph(world, droneId, position) ==
  NeighborLoop(world, droneId, position, world.order, EmptyGraph)

\* Map.set: a new key goes to the end, an existing key keeps its place
MapSet(world, id, state) ==
  [world EXCEPT
    !.order = IF id \in DOMAIN world.drones THEN @ ELSE Append(@, id),
    !.drones = [k \in (DOMAIN @) \cup {id} |-> IF k = id THEN state ELSE @[k]]]

addDrone(world, id, rho, tau, initialPattern, telemetry, now) ==
  LET coordinate ==
        [sigma |-> "grounded", kappa |-> "autonomous", chi |-> "reserve",
         lambda |-> "shared-corridor", tau |-> tau, rho |-> rho,
         epsilon |-> computeNeighborGraph(world, id, telemetry.position),
         delta |-> telemetry]
      state ==
        [id |-> id, coordinate |-> coordinate,
         currentPattern |-> initialPattern, lastTelemetry |-> telemetry,
         lastUpdate |-> now, stale |-> FALSE]
  IN  MapSet(world, id, state)

\* Map.delete
removeDrone(world, id) ==
  LET keep(k) == k # id
  IN  [world EXCEPT
        !.order = SelectSeq(@, keep),
        !.drones = [k \in (DOMAIN @) \ {id} |-> @[k]]]

getActiveDroneIds(world) ==
  LET active(k) == ~world.drones[k].stale
  IN  SelectSeq(world.order, active)

updateTelemetry(world, droneId, telemetry, now) ==
  IF droneId \notin DOMAIN world.drones THEN world
  ELSE LET w1 == [world EXCEPT
                   !.drones[droneId].lastTelemetry = telemetry,
                   !.drones[droneId].coordinate.delta = telemetry,
                   !.drones[droneId].lastUpdate = now,
                   !.drones[droneId].stale = FALSE]
       IN  [w1 EXCEPT !.drones[droneId].coordinate.epsilon =
                        computeNeighborGraph(w1, droneId, telemetry.position)]

\* The world after updatePattern (the DeltaResult it returns is detectDelta
\* of the old and the new core)
updatePattern(world, droneId, patternId, sigma, kappa, chi, lambda) ==
  IF droneId \notin DOMAIN world.drones THEN world
  ELSE [world EXCEPT
         !.drones[droneId].currentPattern = patternId,
         !.drones[droneId].coordinate.sigma = sigma,
         !.drones[droneId].coordinate.kappa = kappa,
         !.drones[droneId].coordinate.chi = chi,
         !.drones[droneId].coordinate.lambda = lambda]

extractCore(coord) ==
  [sigma |-> coord.sigma, kappa |-> coord.kappa, chi |-> coord.chi,
   lambda |-> coord.lambda, tau |-> coord.tau, rho |-> coord.rho]

detectDelta(oldCore, newCore) ==
  LET dims == << "sigma", "kappa", "chi", "lambda", "tau", "rho" >>
      differs(d) == oldCore[d] # newCore[d]
      changed == SelectSeq(dims, differs)
  IN  [changed |-> Len(changed) > 0, structural |-> Len(changed) > 0,
       changedDimensions |-> changed]

markStaleDrones(world, now) ==
  LET isStale(drone) ==
        (now - drone.lastUpdate) > world.config.staleThresholdMs
  IN  [world EXCEPT !.drones =
        [k \in DOMAIN world.drones |->
          [world.drones[k] EXCEPT !.stale = isStale(world.drones[k])]]]

\* ------------------------------------------------------------------------
\* Blast radius
\* ------------------------------------------------------------------------

addRoleDependents(affected, drone, graph) ==
  LET role == drone.coordinate.chi
      a1 == IF role = "leader" THEN SetAddAll(affected, graph.followers)
            ELSE affected
      a2 == IF role = "follower" /\ graph.leader # NULL
            THEN SetAdd(a1, graph.leader) ELSE a1
      a3 == IF role = "relay" /\ graph.relay_target # NULL
            THEN SetAdd(a2, graph.relay_target) ELSE a2
      a4 == IF graph.relay_source # NULL
            THEN SetAdd(a3, graph.relay_source) ELSE a3
  IN  a4

\* Variant: step 2, the spatial neighbours, is left out
computeBlastRadius_RoleDependentsOnly(changedDroneId, world) ==
  LET affected == << changedDroneId >>
      drone == getDrone(world, changedDroneId)
  IN  IF drone = None THEN affected
      ELSE addRoleDependents(affected, drone[1], drone[1].coordinate.epsilon)

\* The affected Set, in insertion order
computeBlastRadius(changedDroneId, world) ==
  LET affected == << changedDroneId >>
      drone == getDrone(world, changedDroneId)
  IN  IF drone = None THEN affected
      ELSE LET graph == drone[1].coordinate.epsilon
           IN  addRoleDependents(SetAddAll(affected, graph.neighbors),
                                 drone[1], graph)

\* Variant: phase 1 takes the blast radius of the first changed drone only
InitialRadius_FirstOnly(changedDroneIds, world, affected) ==
  IF changedDroneIds = << >> THEN affected
  ELSE SetAddAll(affected, computeBlastRadius(Head(changedDroneIds), world))

\* Phase 1: the union of the blast radii of the changed drones
RECURSIVE InitialRadius(_, _, _)
InitialRadius(changedDroneIds, world, affected) ==
  IF changedDroneIds = << >> THEN affected
  ELSE InitialRadius(Tail(changedDroneIds), world,
                     SetAddAll(affected,
                               computeBlastRadius(Head(changedDroneIds), world)))

\* One pass of the for loop over the frontier. c is the loop state
\* [affected, evaluated, next, calls]; calls lists the ids the predicate was
\* invoked with. would is the set of ids for which wouldChangePattern is true.
RECURSIVE FrontierLoop(_, _, _, _, _)

\* Variant: a drone found while it waits in the current frontier is entered
\* into the next frontier as well
FrontierLoop_NoFrontierCheck(rest, frontier, world, would, c) ==
  IF rest = << >> THEN c
  ELSE LET droneId == Head(rest)
           evaluated == SetAdd(c.evaluated, droneId)
           cascadeRadius == computeBlastRadius(droneId, world)
           isNew(id) == id \notin Range(evaluated)
           c1 == [c EXCEPT !.evaluated = evaluated,
                           !.calls = Append(@, droneId)]
           c2 == [c1 EXCEPT
                   !.affected = SetAddAll(@, cascadeRadius),
                   !.next = SetAddAll(@, SelectSeq(cascadeRadius, isNew))]
       IN  FrontierLoop(Tail(rest), frontier, world, would,
                        IF droneId \in would THEN c2 ELSE c1)

\* Variant: the blast radius of a frontier drone is added whatever the
\* predicate answers
FrontierLoop_IgnorePredicate(rest, frontier, world, would, c) ==
  IF rest = << >> THEN c
  ELSE LET droneId == Head(rest)
           evaluated == SetAdd(c.evaluated, droneId)
           cascadeRadius == computeBlastRadius(droneId, world)
           isNew(id) == id \notin Range(evaluated) /\ id \notin Range(frontier)
           c1 == [c EXCEPT !.evaluated = evaluated,
                           !.calls = Append(@, droneId)]
           c2 == [c1 EXCEPT
                   !.affected = SetAddAll(@, cascadeRadius),
                   !.next = SetAddAll(@, SelectSeq(cascadeRadius, isNew))]
       IN  FrontierLoop(Tail(rest), frontier, world, would, c2)

FrontierLoop(rest, frontier, world, would, c) ==
  IF rest = << >> THEN c
  ELSE LET droneId == Head(rest)
           evaluated == SetAdd(c.evaluated, droneId)
           cascadeRadius == computeBlastRadius(droneId, world)
           isNew(id) == id \notin Range(evaluated) /\ id \notin Range(frontier)
           c1 == [c EXCEPT !.evaluated = evaluated,
                           !.calls = Append(@, droneId)]
           c2 == [c1 EXCEPT
                   !.affected = SetAddAll(@, cascadeRadius),
                   !.next = SetAddAll(@, SelectSeq(cascadeRadius, isNew))]
       IN  FrontierLoop(Tail(rest), frontier, world, would,
                        IF droneId \in would THEN c2 ELSE c1)

\* The while loop: rounds counts its iterations
RECURSIVE CascadeLoop(_, _, _, _)
CascadeLoop(frontier, world, would, c) ==
  IF Len(frontier) = 0 THEN c
  ELSE LET c1 == FrontierLoop(frontier, frontier, world, would,
                              [c EXCEPT !.next = << >>])
       IN  CascadeLoop(c1.next, world, would,
                       [c1 EXCEPT !.rounds = @ + 1])

\* Variant: the changed drones are not entered into evaluated
CascadeRun_ChangedNotEvaluated(changedDroneIds, world, would) ==
  LET affected == InitialRadius(changedDroneIds, world, << >>)
  IN  CascadeLoop(affected, world, would,
                  [affected |-> affected, evaluated |-> << >>,
                   next |-> << >>, calls |-> << >>, rounds |-> 0])

\* The run of computeCascadingBlastRadius with a predicate
CascadeRun(changedDroneIds, world, would) ==
  LET affected == InitialRadius(changedDroneIds, world, << >>)
      evaluated == SetAddAll(<< >>, changedDroneIds)
      notEvaluated(id) == id \notin Range(evaluated)
      frontier == SelectSeq(affected, notEvaluated)
  IN  CascadeLoop(frontier, world, would,
                  [affected |-> affected, evaluated |-> evaluated,
                   next |-> << >>, calls |-> << >>, rounds |-> 0])

\* wouldChangePattern is None (no callback) or Some(the set of ids it is
\* true for)
computeCascadingBlastRadius(changedDroneIds, world, wouldChangePattern) ==
  IF wouldChangePattern = None
  THEN InitialRadius(changedDroneIds, world, << >>)
  ELSE CascadeRun(changedDroneIds, world, wouldChangePattern[1]).affected

\* ------------------------------------------------------------------------
\* Constraint engine
\* ------------------------------------------------------------------------

\* A forced-exit condition "<field> < <threshold>" is [field, threshold];
\* a string the regular expression rejects is [field |-> "malformed"].
evaluateCondition(condition, drone) ==
  CASE condition.field = "battery" ->
         drone.lastTelemetry.battery.percentage < condition.threshold
    [] condition.field = "position_quality" ->
         drone.lastTelemetry.position_quality < condition.threshold
    [] OTHER -> FALSE

\* None, or Some(target_pattern) of the first exit whose condition holds
checkForcedExits(drone, pattern) ==
  LET triggers(exit) == evaluateCondition(exit.condition, drone)
      first == FindFirst(pattern.postconditions.forced_exits, triggers)
  IN  IF first = None THEN None ELSE Some(first[1].target_pattern)

OBJECTIVE_SIGMA_MAP(type) ==
  CASE type = "formation" -> "formation-hold"
    [] type = "orbit"     -> "orbit"
    [] type = "translate" -> "translate"
    [] type = "hover"     -> "hover"
    [] type = "land-all"  -> "land"

RECURSIVE ObjectiveScore(_, _)
ObjectiveScore(candidate, objectives) ==
  IF objectives = << >> THEN 0
  ELSE (IF candidate.core.sigma = OBJECTIVE_SIGMA_MAP(Head(objectives).type)
        THEN 5 ELSE 0)
       + ObjectiveScore(candidate, Tail(objectives))

scoreCandidate(candidate, drone, objectives) ==
  (IF candidate.id = drone.currentPattern THEN 10 ELSE 0)
  + ObjectiveScore(candidate, objectives)
  + (IF candidate.core.chi = drone.coordinate.chi THEN 2 ELSE 0)
  + (IF /\ candidate.preconditions.battery_floor > 300
        /\ drone.lastTelemetry.battery.percentage < 500
     THEN -5 ELSE 0)

meetsPreconditions(pattern, drone) ==
  LET refCount == Len(drone.coordinate.epsilon.neighbors)
                    + Len(drone.coordinate.epsilon.base_stations)
  IN  IF drone.lastTelemetry.battery.percentage
           < pattern.preconditions.battery_floor THEN FALSE
      ELSE IF drone.lastTelemetry.position_quality
                < pattern.preconditions.position_quality_floor THEN FALSE
      ELSE IF refCount < pattern.preconditions.min_references THEN FALSE
      ELSE TRUE

\* assignedPatterns: a function from the ids assigned so far to pattern ids
\* Variant: the neighbour's pattern is always read from the world model
NeighborPattern_CurrentOnly(world, assignedPatterns, neighborId) ==
  IF neighborId \in DOMAIN world.drones
  THEN Some(world.drones[neighborId].currentPattern)
  ELSE None

NeighborPattern(world, assignedPatterns, neighborId) ==
  IF neighborId \in DOMAIN assignedPatterns
  THEN Some(assignedPatterns[neighborId])
  ELSE IF neighborId \in DOMAIN world.drones
       THEN Some(world.drones[neighborId].currentPattern)
       ELSE None

isCompatibleWithNeighbors(candidate, drone, world, catalog, assignedPatterns) ==
  \A n \in 1..Len(drone.coordinate.epsilon.neighbors) :
    LET neighborId == drone.coordinate.epsilon.neighbors[n]
        neighborPattern == NeighborPattern(world, assignedPatterns, neighborId)
        neighborDrone == getDrone(world, neighborId)
    IN  \/ neighborPattern = None
        \/ neighborPattern[1] = << >>
        \/ neighborDrone = None
        \/ isCompatible(catalog, candidate.id, neighborPattern[1],
                        vec3Distance(drone.lastTelemetry.position,
                                     neighborDrone[1].lastTelemetry.position))

\* Variant: the first hover pattern, whatever its battery_floor
findFallbackHover_First(drone, catalog) ==
  LET hovers == filterByCore(catalog, Partial("hover", drone.coordinate.rho,
                                             drone.coordinate.tau))
  IN  IF Len(hovers) = 0 THEN None ELSE Some(hovers[1])

\* Array.prototype.reduce keeping the first pattern of lowest battery_floor
findFallbackHover(drone, catalog) ==
  LET hovers == filterByCore(catalog, Partial("hover", drone.coordinate.rho,
                                             drone.coordinate.tau))
      floor(i) == hovers[i].preconditions.battery_floor
  IN  IF Len(hovers) = 0 THEN None
      ELSE Some(hovers[CHOOSE i \in 1..Len(hovers) :
                  /\ \A j \in 1..Len(hovers) : floor(i) <= floor(j)
                  /\ \A j \in 1..(i - 1) : floor(j) > floor(i)])

findEmergencyFallback(drone, catalog) ==
  LET hwPatterns == filterByCore(catalog, Partial(NULL, drone.coordinate.rho,
                                                 drone.coordinate.tau))
      zeroFloor(p) == p.preconditions.battery_floor = 0
      emergency == SelectSeq(hwPatterns, zeroFloor)
      landing(p) == p.core.sigma = "land" \/ p.core.sigma = "grounded"
      landPattern == FindFirst(emergency, landing)
  IN  IF Len(emergency) = 0 THEN None
      ELSE IF landPattern # None THEN landPattern
      ELSE Some(emergency[1])

\* Variant: step 4, the transition filter, is left out
compatibleCandidates_AnyTransition(drone, world, catalog, assignedPatterns) ==
  LET hardwareMatches ==
        filterByCore(catalog, Partial(NULL, drone.coordinate.rho,
                                      drone.coordinate.tau))
      meets(p) == meetsPreconditions(p, drone)
      preconditionMatches == SelectSeq(hardwareMatches, meets)
      compatible(p) ==
        isCompatibleWithNeighbors(p, drone, world, catalog, assignedPatterns)
  IN  SelectSeq(preconditionMatches, compatible)

\* Steps 2 to 5 of solveForDrone: the candidates that survive every filter
compatibleCandidates(drone, world, catalog, assignedPatterns) ==
  LET hardwareMatches ==
        filterByCore(catalog, Partial(NULL, drone.coordinate.rho,
                                      drone.coordinate.tau))
      meets(p) == meetsPreconditions(p, drone)
      preconditionMatches == SelectSeq(hardwareMatches, meets)
      transitionOk(p) ==
        \/ drone.currentPattern = << >>
        \/ p.id = drone.currentPattern
        \/ isPatternTransitionValid(catalog, drone.currentPattern, p.id)
      transitionMatches == SelectSeq(preconditionMatches, transitionOk)
      compatible(p) ==
        isCompatibleWithNeighbors(p, drone, world, catalog, assignedPatterns)
  IN  SelectSeq(transitionMatches, compatible)

\* Variant: the forced exit is taken without looking its target up
forcedAssignment_NoTargetLookup(drone, catalog) ==
  LET currentPattern == lookupPattern(catalog, drone.currentPattern)
  IN  IF currentPattern = None THEN None
      ELSE checkForcedExits(drone, currentPattern[1])

\* Variant: a forced exit is taken only along a valid pattern transition
forcedAssignment_ValidTransitionOnly(drone, catalog) ==
  LET currentPattern == lookupPattern(catalog, drone.currentPattern)
      forcedTarget == IF currentPattern = None THEN None
                      ELSE checkForcedExits(drone, currentPattern[1])
  IN  IF /\ forcedTarget # None
         /\ lookupPattern(catalog, forcedTarget[1]) # None
         /\ isPatternTransitionValid(catalog, drone.currentPattern, forcedTarget[1])
      THEN forcedTarget ELSE None

\* Step 1 of solveForDrone: Some(target) when a forced exit fires and its
\* target pattern is in the catalog
forcedAssignment(drone, catalog) ==
  LET currentPattern == lookupPattern(catalog, drone.currentPattern)
      forcedTarget == IF currentPattern = None THEN None
                      ELSE checkForcedExits(drone, currentPattern[1])
  IN  IF forcedTarget # None /\ lookupPattern(catalog, forcedTarget[1]) # None
      THEN forcedTarget ELSE None

\* Variant: among the candidates of maximal score the last one is taken
bestScored_LastOfEqual(candidates, drone, objectives) ==
  LET score(i) == scoreCandidate(candidates[i], drone, objectives)
  IN  candidates[CHOOSE i \in 1..Len(candidates) :
        /\ \A j \in 1..Len(candidates) : score(j) <= score(i)
        /\ \A j \in (i + 1)..Len(candidates) : score(j) < score(i)]

\* The stable sort by descending score puts first the earliest candidate
\* of maximal score
bestScored(candidates, drone, objectives) ==
  LET score(i) == scoreCandidate(candidates[i], drone, objectives)
  IN  candidates[CHOOSE i \in 1..Len(candidates) :
        /\ \A j \in 1..Len(candidates) : score(j) <= score(i)
        /\ \A j \in 1..(i - 1) : score(j) < score(i)]

\* Steps 6 and 7 of solveForDrone: hover fallback, emergency fallback, then
\* the current pattern
fallbackAssignment(drone, catalog) ==
  LET hoverFallback == findFallbackHover(drone, catalog)
      emergencyFallback == findEmergencyFallback(drone, catalog)
  IN  IF hoverFallback # None
      THEN [droneId |-> drone.id, patternId |-> hoverFallback[1].id]
      ELSE IF emergencyFallback # None
      THEN [droneId |-> drone.id, patternId |-> emergencyFallback[1].id]
      ELSE [droneId |-> drone.id, patternId |-> drone.currentPattern]

solveForDrone(drone, world, catalog, objectives, assignedPatterns) ==
  LET forced == forcedAssignment(drone, catalog)
  IN  IF forced # None
      THEN [droneId |-> drone.id, patternId |-> forced[1]]
      ELSE CHOOSE assignment \in
             { IF Len(candidates) > 0
               THEN [droneId |-> drone.id,
                     patternId |-> bestScored(candidates, drone, objectives).id]
               ELSE fallbackAssignment(drone, catalog) :
               candidates \in { compatibleCandidates(drone, world, catalog,
                                                     assignedPatterns) } } : TRUE

\* The Map assignedPatterns.set(droneId, patternId)
FnSet(f, k, v) == [x \in (DOMAIN f) \cup {k} |-> IF x = k THEN v ELSE f[x]]

EmptyFn == [x \in {} |-> NULL]

RECURSIVE SolveLoop(_, _, _, _, _, _)
SolveLoop(rest, world, catalog, objectives, assignments, assignedPatterns) ==
  IF rest = << >> THEN assignments
  ELSE LET droneId == Head(rest)
           drone == getDrone(world, droneId)
       IN  IF drone = None
           THEN SolveLoop(Tail(rest), world, catalog, objectives, assignments,
                          assignedPatterns)
           ELSE \* const assignment = solveForDrone(...)
                CHOOSE result \in
                  { SolveLoop(Tail(rest), world, catalog, objectives,
                              Append(assignments, assignment),
                              FnSet(assignedPatterns, droneId,
                                    assignment.patternId)) :
                    assignment \in { solveForDrone(drone[1], world, catalog,
                                       objectives, assignedPatterns) } } : TRUE

\* affectedDrones: the affected Set in insertion order
solveAssignment(world, catalog, affectedDrones, objectives) ==
  SolveLoop(affectedDrones, world, catalog, objectives, << >>, EmptyFn)

\* ------------------------------------------------------------------------
\* Role assignment
\* ------------------------------------------------------------------------

CHARGING_ROLES == { "charging", "charger-inbound", "charger-outbound" }

GROUNDED_SIGMA == { "grounded", "docked" }

\* The working state of assignRoles is r = [eff, keys, val]: eff is the
\* effectiveRole Map, keys/val the changes Map (keys in insertion order).
setRole(r, id, role) ==
  [eff |-> [r.eff EXCEPT ![id] = role],
   keys |-> SetAdd(r.keys, id),
   val |-> FnSet(r.val, id, role)]

countRole(effectiveRole, role) ==
  Cardinality({ id \in DOMAIN effectiveRole : effectiveRole[id] = role })

Battery(drone) == drone.lastTelemetry.battery.percentage

RECURSIVE Rule1(_, _, _)
Rule1(drones, cfg, r) ==
  IF drones = << >> THEN r
  ELSE LET drone == Head(drones)
           currentRole == r.eff[drone.id]
       IN  Rule1(Tail(drones), cfg,
                 IF /\ Battery(drone) < cfg.batteryChargeThreshold
                    /\ currentRole \notin CHARGING_ROLES
                 THEN setRole(r, drone.id, "charger-inbound") ELSE r)

RECURSIVE Rule2(_, _, _)
Rule2(drones, cfg, r) ==
  IF drones = << >> THEN r
  ELSE LET drone == Head(drones)
           currentRole == r.eff[drone.id]
       IN  Rule2(Tail(drones), cfg,
                 IF /\ currentRole = "charging"
                    /\ Battery(drone) >= cfg.batteryReturnThreshold
                 THEN setRole(r, drone.id, "charger-outbound") ELSE r)

RECURSIVE Rule3(_, _, _)
Rule3(drones, formation, r) ==
  IF drones = << >> THEN r
  ELSE LET drone == Head(drones)
           currentRole == r.eff[drone.id]
           performerCount == countRole(r.eff, "performer")
       IN  Rule3(Tail(drones), formation,
                 IF /\ currentRole = "charger-outbound"
                    /\ drone.coordinate.sigma \notin GROUNDED_SIGMA
                 THEN IF performerCount < formation.minPerformers
                      THEN setRole(r, drone.id, "performer")
                      ELSE setRole(r, drone.id, "reserve")
                 ELSE r)

Eligible(drones, effectiveRole, cfg) ==
  LET ok(d) == /\ effectiveRole[d.id] \in { "performer", "reserve" }
               /\ Battery(d) >= cfg.batteryChargeThreshold
  IN  SelectSeq(drones, ok)

\* score * 100000: distToBoundary - battery.percentage * 0.01
RelayScore(drone, coverage) ==
  LET distFromOrigin == vec3Distance(drone.lastTelemetry.position, Vec3(0, 0, 0))
      distToBoundary == Abs(distFromOrigin - coverage.coverageRadius)
  IN  distToBoundary * 100000 - Battery(drone)

\* The first eligible drone of minimal score (score < bestScore is strict)
pickRelayCandidate(drones, effectiveRole, coverage, cfg) ==
  LET eligible == Eligible(drones, effectiveRole, cfg)
      score(i) == RelayScore(eligible[i], coverage)
  IN  IF Len(eligible) = 0 THEN None
      ELSE Some(eligible[CHOOSE i \in 1..Len(eligible) :
                  /\ \A j \in 1..Len(eligible) : score(i) <= score(j)
                  /\ \A j \in 1..(i - 1) : score(j) > score(i)])

\* Array.prototype.sort is stable. Before(a, b) is "the comparator is
\* negative on (a, b)"; for a comparator that is a difference of one key the
\* sorted array is determined: an element is preceded by those that go
\* before it and by the earlier ones that tie with it.
StableSort(s, Before(_, _)) ==
  LET n == Len(s)
      rank(i) == 1 + Cardinality({ j \in 1..n :
                       \/ Before(s[j], s[i])
                       \/ (~Before(s[i], s[j]) /\ j < i) })
  IN  [k \in 1..n |-> s[CHOOSE i \in 1..n : rank(i) = k]]

\* The comparator of pickLeaderCandidate: battery desc, then
\* position_quality desc when the batteries differ by at most 0.001
LeaderCmp(a, b) ==
  LET battDiff == Battery(b) - Battery(a)
  IN  IF Abs(battDiff) > 1 THEN battDiff
      ELSE b.lastTelemetry.position_quality - a.lastTelemetry.position_quality

\* Array.prototype.sort with this comparator, as the engine runs it on an
\* array shorter than 64: the comparator is not transitive (two drones tie
\* when their batteries are within 0.001, ties do not chain), so the result is
\* the result of the algorithm and not of an order. The algorithm takes the
\* longest run at the start of the array, ascending or strictly descending by
\* the comparator, reverses a descending run, and inserts each later element
\* by binary search into the sorted prefix.

\* The length of the initial run of e from index idx on
RECURSIVE LeaderRunEnd(_, _, _)
LeaderRunEnd(e, idx, isDescending) ==
  IF idx > Len(e) THEN Len(e)
  ELSE LET order == LeaderCmp(e[idx], e[idx - 1])
       IN  IF (isDescending /\ order >= 0) \/ (~isDescending /\ order < 0)
           THEN idx - 1
           ELSE LeaderRunEnd(e, idx + 1, isDescending)

\* The insertion point of pivot in sorted[left + 1 .. right] (left and right
\* are the zero-based bounds of the engine)
RECURSIVE LeaderSearch(_, _, _, _)
LeaderSearch(sorted, pivot, left, right) ==
  IF ~(left < right) THEN left
  ELSE LET mid == left + ((right - left) \div 2)
       IN  IF LeaderCmp(pivot, sorted[mid + 1]) < 0
           THEN LeaderSearch(sorted, pivot, left, mid)
           ELSE LeaderSearch(sorted, pivot, mid + 1, right)

LeaderInsert(sorted, pivot) ==
  LET at == LeaderSearch(sorted, pivot, 0, Len(sorted))
  IN  SubSeq(sorted, 1, at) \o << pivot >> \o SubSeq(sorted, at + 1, Len(sorted))

RECURSIVE LeaderInsertAll(_, _)
LeaderInsertAll(rest, sorted) ==
  IF rest = << >> THEN sorted
  ELSE LeaderInsertAll(Tail(rest), LeaderInsert(sorted, Head(rest)))

LeaderSort(e) ==
  IF Len(e) < 2 THEN e
  ELSE LET isDescending == LeaderCmp(e[2], e[1]) < 0
           runLength == LeaderRunEnd(e, 3, isDescending)
           run == IF isDescending
                  THEN [i \in 1..runLength |-> e[runLength + 1 - i]]
                  ELSE SubSeq(e, 1, runLength)
       IN  LeaderInsertAll(SubSeq(e, runLength + 1, Len(e)), run)

pickLeaderCandidate(drones, effectiveRole, cfg) ==
  LET eligible == Eligible(drones, effectiveRole, cfg)
  IN  IF Len(eligible) = 0 THEN None
      ELSE Some(LeaderSort(eligible)[1])

RECURSIVE SetRoleAll(_, _, _)
SetRoleAll(r, drones, role) ==
  IF drones = << >> THEN r
  ELSE SetRoleAll(setRole(r, Head(drones).id, role), Tail(drones), role)

Min(a, b) == IF a < b THEN a ELSE b

Rule4(drones, coverage, cfg, r) ==
  LET candidate == pickRelayCandidate(drones, r.eff, coverage, cfg)
  IN  IF coverage.needsRelay /\ ~(countRole(r.eff, "relay") > 0)
         /\ candidate # None
      THEN setRole(r, candidate[1].id, "relay") ELSE r

Rule5(drones, formation, cfg, r) ==
  LET candidate == pickLeaderCandidate(drones, r.eff, cfg)
  IN  IF formation.needsLeader /\ ~(countRole(r.eff, "leader") > 0)
         /\ candidate # None
      THEN setRole(r, candidate[1].id, "leader") ELSE r

Rule6(drones, formation, r) ==
  LET performerCount == countRole(r.eff, "performer")
      needed == formation.minPerformers - performerCount
      isReserve(d) == r.eff[d.id] = "reserve"
      higherBattery(a, b) == Battery(b) - Battery(a) < 0
      reserves == StableSort(SelectSeq(drones, isReserve), higherBattery)
  IN  IF performerCount < formation.minPerformers
      THEN SetRoleAll(r, SubSeq(reserves, 1, Min(needed, Len(reserves))),
                      "performer")
      ELSE r

Rule7(drones, formation, r) ==
  LET isPerformer(d) == r.eff[d.id] = "performer"
      lowerBattery(a, b) == Battery(a) - Battery(b) < 0
      currentPerformers == StableSort(SelectSeq(drones, isPerformer), lowerBattery)
      totalPerformersNow == Len(currentPerformers)
      excess == totalPerformersNow - formation.minPerformers
      lowish(d) == Battery(d) < 500
  IN  IF totalPerformersNow > formation.minPerformers
      THEN SetRoleAll(r, SelectSeq(SubSeq(currentPerformers, 1, excess), lowish),
                      "reserve")
      ELSE r

\* roleTickCounts: None, or Some(function from drone ids to tick counts);
\* a missing entry reads as Infinity
\* Variant: hysteresis that also holds back the change to charger-inbound
Rule8_SuppressAll(cfg, roleTickCounts, r) ==
  LET suppressed(id) ==
        /\ id \in DOMAIN roleTickCounts[1]
        /\ roleTickCounts[1][id] < cfg.roleHysteresisTickCount
      kept(id) == ~suppressed(id)
  IN  IF roleTickCounts = None THEN r
      ELSE [r EXCEPT !.keys = SelectSeq(@, kept)]

\* Variant: a missing entry reads as zero
Rule8_MissingIsZero(cfg, roleTickCounts, r) ==
  LET suppressed(id) ==
        /\ r.val[id] # "charger-inbound"
        /\ \/ id \notin DOMAIN roleTickCounts[1]
           \/ roleTickCounts[1][id] < cfg.roleHysteresisTickCount
      kept(id) == ~suppressed(id)
  IN  IF roleTickCounts = None THEN r
      ELSE [r EXCEPT !.keys = SelectSeq(@, kept)]

\* Variant: a change is suppressed only while the counter is zero
Rule8_FirstRoundOnly(cfg, roleTickCounts, r) ==
  LET suppressed(id) ==
        /\ r.val[id] # "charger-inbound"
        /\ id \in DOMAIN roleTickCounts[1]
        /\ roleTickCounts[1][id] < 1
      kept(id) == ~suppressed(id)
  IN  IF roleTickCounts = None THEN r
      ELSE [r EXCEPT !.keys = SelectSeq(@, kept)]

Rule8(cfg, roleTickCounts, r) ==
  LET suppressed(id) ==
        /\ r.val[id] # "charger-inbound"
        /\ id \in DOMAIN roleTickCounts[1]
        /\ roleTickCounts[1][id] < cfg.roleHysteresisTickCount
      kept(id) == ~suppressed(id)
  IN  IF roleTickCounts = None THEN r
      ELSE [r EXCEPT !.keys = SelectSeq(@, kept)]

\* Variant: the effective roles are returned in place of the changes
removeNoOps_ReturnEffective(world, r) ==
  LET active(id) == id \in DOMAIN r.eff
  IN  [keys |-> SelectSeq(world.order, active), val |-> r.eff]

\* Final cleanup: the changes whose new role is the stored role are deleted
removeNoOps(world, r) ==
  LET notNoop(id) == ~(id \in DOMAIN world.drones
                       /\ world.drones[id].coordinate.chi = r.val[id])
      keys == SelectSeq(r.keys, notNoop)
  IN  [keys |-> keys, val |-> [id \in Range(keys) |-> r.val[id]]]

\* The changes Map returned: [keys in insertion order, val on those keys]
assignRoles(world, formation, coverage, cfg, roleTickCounts) ==
  LET activeIds == getActiveDroneIds(world)
      drones == [i \in 1..Len(activeIds) |-> world.drones[activeIds[i]]]
      r0 == [eff |-> [id \in Range(activeIds) |-> world.drones[id].coordinate.chi],
             keys |-> << >>, val |-> EmptyFn]
      r1 == Rule1(drones, cfg, r0)
      r2 == Rule2(drones, cfg, r1)
      r3 == Rule3(drones, formation, r2)
      r4 == Rule4(drones, coverage, cfg, r3)
      r5 == Rule5(drones, formation, cfg, r4)
      r6 == Rule6(drones, formation, r5)
      r7 == Rule7(drones, formation, r6)
      r8 == Rule8(cfg, roleTickCounts, r7)
  IN  removeNoOps(world, r8)

\* ------------------------------------------------------------------------
\* Coordinator
\* ------------------------------------------------------------------------

\* Variant: the numbering starts at one
patternIdMap_FromOne(catalog, patternId) ==
  LET hits == { i \in 1..Len(catalog.patterns) : catalog.patterns[i].id = patternId }
  IN  IF hits = {} THEN None ELSE Some(CHOOSE i \in hits : TRUE)

\* patternIdMap: pattern id -> sequential number, in catalog order
patternIdMap(catalog, patternId) ==
  LET hits == { i \in 1..Len(catalog.patterns) : catalog.patterns[i].id = patternId }
  IN  IF hits = {} THEN None ELSE Some((CHOOSE i \in hits : TRUE) - 1)

\* The loop of applyAssignments; a is [world, sent]. sent lists the commands
\* sendCommand was called with; the promise of a command is rejected when the
\* comms is not connected (conn false), and the rejection is caught and dropped
RECURSIVE ApplyLoop(_, _, _, _)
\* Variant: a rejected send is not caught and ends the loop
ApplyLoop_SendThrows(assignments, catalog, conn, a) ==
  IF assignments = << >> THEN a
  ELSE LET assignment == Head(assignments)
           pattern == lookupPattern(catalog, assignment.patternId)
           numeric == patternIdMap(catalog, assignment.patternId)
           cmd == [droneId |-> assignment.droneId,
                   patternId |-> IF numeric = None THEN 0 ELSE numeric[1],
                   flags |-> 0, rejected |-> ~conn]
           applied == [world |-> updatePattern(a.world, assignment.droneId,
                                  assignment.patternId, pattern[1].core.sigma,
                                  pattern[1].core.kappa, pattern[1].core.chi,
                                  pattern[1].core.lambda),
                       sent |-> Append(a.sent, cmd)]
       IN  IF pattern = None THEN ApplyLoop(Tail(assignments), catalog, conn, a)
           ELSE IF ~conn THEN applied
           ELSE ApplyLoop(Tail(assignments), catalog, conn, applied)

ApplyLoop(assignments, catalog, conn, a) ==
  IF assignments = << >> THEN a
  ELSE LET assignment == Head(assignments)
           pattern == lookupPattern(catalog, assignment.patternId)
           numeric == patternIdMap(catalog, assignment.patternId)
           cmd == [droneId |-> assignment.droneId,
                   patternId |-> IF numeric = None THEN 0 ELSE numeric[1],
                   flags |-> 0, rejected |-> ~conn]
       IN  IF pattern = None THEN ApplyLoop(Tail(assignments), catalog, conn, a)
           ELSE ApplyLoop(Tail(assignments), catalog, conn,
                  [world |-> updatePattern(a.world, assignment.droneId,
                               assignment.patternId, pattern[1].core.sigma,
                               pattern[1].core.kappa, pattern[1].core.chi,
                               pattern[1].core.lambda),
                   sent |-> Append(a.sent, cmd)])

\* Variant: a telemetry callback for the first drone runs before the loop ends
applyAssignments_TelemetryInside(world, catalog, assignments, sent, conn) ==
  LET a == ApplyLoop(assignments, catalog, conn, [world |-> world, sent |-> sent])
  IN  IF Len(world.order) = 0 THEN a
      ELSE [a EXCEPT !.world = updateTelemetry(a.world, world.order[1],
                                 [position |-> Vec3(0, 0, 1),
                                  battery |-> [percentage |-> 1],
                                  position_quality |-> 1], 0)]

applyAssignments(world, catalog, assignments, sent, conn) ==
  ApplyLoop(assignments, catalog, conn, [world |-> world, sent |-> sent])

\* Step 2 of tick: the non-stale drones with a forced exit that fires
forcedChangesOf(world, catalog) ==
  LET forced(id) ==
        LET drone == world.drones[id]
            pattern == lookupPattern(catalog, drone.currentPattern)
            forcedTarget == IF pattern = None THEN None
                            ELSE checkForcedExits(drone, pattern[1])
        IN  ~drone.stale /\ forcedTarget # None /\ forcedTarget[1] # << >>
  IN  SelectSeq(world.order, forced)

\* The loop applying the role changes to the world model
RECURSIVE ApplyRoles(_, _, _)
ApplyRoles(keys, val, world) ==
  IF keys = << >> THEN world
  ELSE LET droneId == Head(keys)
           drone == getDrone(world, droneId)
       IN  ApplyRoles(Tail(keys), val,
             IF drone = None THEN world
             ELSE updatePattern(world, droneId, drone[1].currentPattern,
                                drone[1].coordinate.sigma,
                                drone[1].coordinate.kappa, val[droneId],
                                drone[1].coordinate.lambda))

\* Variant: the counters of the changed drones are reset before the increment
bumpCounts_ResetFirst(counts, world, roleChanges) ==
  LET active == Range(getActiveDroneIds(world))
      changed == Range(roleChanges.keys)
  IN  [id \in (DOMAIN counts) \cup active \cup changed |->
        IF id \in active
        THEN (IF id \in changed \/ id \notin DOMAIN counts THEN 0 ELSE counts[id]) + 1
        ELSE IF id \in changed THEN 0 ELSE counts[id]]

\* The role hold counters after the periodic branch
bumpCounts(counts, world, roleChanges) ==
  LET active == Range(getActiveDroneIds(world))
      changed == Range(roleChanges.keys)
  IN  [id \in (DOMAIN counts) \cup active \cup changed |->
        IF id \in changed THEN 0
        ELSE IF id \in active
             THEN (IF id \in DOMAIN counts THEN counts[id] ELSE 0) + 1
             ELSE counts[id]]

NoRoleChanges == [keys |-> << >>, val |-> EmptyFn]

\* One run of tick(): the record of everything it computes and leaves behind
tick(c) ==
  LET tickCount == c.tickCount + 1
      periodic == tickCount % c.config.roleReassignmentInterval = 0
  IN  \* 1. mark stale drones; 2. scan the forced exits
      Bind(markStaleDrones(c.world, c.now), LAMBDA w1 :
      Bind(forcedChangesOf(w1, c.catalog), LAMBDA forcedChanges :
      \* 4. blast radius, re-solve, apply
      Bind(IF Len(forcedChanges) > 0
           THEN solveAssignment(w1, c.catalog,
                  computeCascadingBlastRadius(forcedChanges, w1, None),
                  c.objectives)
           ELSE << >>, LAMBDA assignments1 :
      Bind(applyAssignments(w1, c.catalog, assignments1, << >>, c.connected),
           LAMBDA a1 :
      \* 5. periodic role reassignment
      Bind(IF periodic
           THEN assignRoles(a1.world, c.formation, c.coverage,
                            c.config.roleConfig, Some(c.roleTickCounts))
           ELSE NoRoleChanges, LAMBDA roleChanges :
      Bind(computeCascadingBlastRadius(roleChanges.keys, a1.world, None),
           LAMBDA affected :
      Bind(ApplyRoles(roleChanges.keys, roleChanges.val, a1.world), LAMBDA w3 :
      Bind(IF Len(roleChanges.keys) > 0
           THEN solveAssignment(w3, c.catalog, affected, c.objectives)
           ELSE << >>, LAMBDA roleAssignments :
      Bind(applyAssignments(w3, c.catalog, roleAssignments, a1.sent, c.connected),
           LAMBDA a2 :
        [tickCount |-> tickCount,
         world |-> a2.world,
         roleTickCounts |-> IF periodic
                            THEN bumpCounts(c.roleTickCounts, a2.world, roleChanges)
                            ELSE c.roleTickCounts,
         assignments |-> assignments1 \o roleAssignments,
         forcedChanges |-> forcedChanges,
         roleChanges |-> roleChanges,
         sent |-> a2.sent])))))))))

\* ------------------------------------------------------------------------
\* Inputs: catalogs, telemetry, configurations
\* ------------------------------------------------------------------------

GR == << "g", "r" >>   \* grounded, reserve
TK == << "k", "p" >>   \* takeoff, performer
HP == << "h", "p" >>   \* hover, performer
TP == << "t", "p" >>   \* translate, performer
EL == << "l", "e" >>   \* land, emergency
HL == << "h", "l" >>   \* hover, leader
GHOST == << "x" >>     \* an id no catalog contains

Core(sigma, kappa, chi, lambda) ==
  [sigma |-> sigma, kappa |-> kappa, chi |-> chi, lambda |-> lambda,
   tau |-> "bare", rho |-> "crazyflie-2.1"]

Exit(field, threshold, target) ==
  [condition |-> [field |-> field, threshold |-> threshold],
   target_pattern |-> target]

Pattern(id, core, bf, pqf, refs, from, to, exits) ==
  [id |-> id, core |-> core,
   preconditions |-> [battery_floor |-> bf, position_quality_floor |-> pqf,
                      min_references |-> refs, valid_from |-> from],
   postconditions |-> [valid_to |-> to, forced_exits |-> exits]]

PGrounded ==
  Pattern(GR, Core("grounded", "autonomous", "reserve", "shared-corridor"),
          0, 0, 0, << EL >>, << TK >>, << >>)

PTakeoff ==
  Pattern(TK, Core("takeoff", "autonomous", "performer", "shared-corridor"),
          200, 300, 0, << GR >>, << HP >>,
          << Exit("battery", 100, EL) >>)

PHover ==
  Pattern(HP, Core("hover", "autonomous", "performer", "shared-corridor"),
          200, 300, 0, << TK, TP, HL >>, << TP, HL >>,
          << Exit("altitude", 100, GR), Exit("battery", 100, EL),
             Exit("position_quality", 300, GR) >>)

PTranslate ==
  Pattern(TP, Core("translate", "autonomous", "performer", "shared-corridor"),
          400, 300, 1, << HP >>, << HP >>,
          << Exit("battery", 100, GHOST) >>)

PEmergencyLand ==
  Pattern(EL, Core("land", "emergency", "performer", "shared-corridor"),
          0, 0, 0, << >>, << GR >>, << >>)

PHoverLeader ==
  Pattern(HL, Core("hover", "autonomous", "leader", "exclusive-volume"),
          200, 300, 0, << HP >>, << HP >>,
          << Exit("battery", 100, EL) >>)

Rule(a, b, compatible, sep) ==
  [pattern_a |-> a, pattern_b |-> b, compatible |-> compatible,
   min_separation_m |-> sep]

NoRules == << >>

SomeRules ==
  << Rule(<< "*" >>, << "*" >>, TRUE, 1),
     Rule(<< "h", "*" >>, << "h", "*" >>, TRUE, 4),
     Rule(HP, TP, FALSE, 0),
     Rule(<< "*", "e" >>, << "*" >>, TRUE, 4) >>

Catalog(patterns, rules) == [patterns |-> patterns, compatibility |-> rules]

FullPatterns ==
  << PGrounded, PTakeoff, PHover, PTranslate, PEmergencyLand, PHoverLeader >>

DroneIds == << "d0", "d1" >>

\* Collinear positions: every distance and norm is an integer (0, 5, 10)
P0 == Vec3(0, 0, 0)
P1 == Vec3(3, 4, 0)
P2 == Vec3(6, 8, 0)

Telemetry(pos, battery, quality) ==
  [position |-> pos, battery |-> [percentage |-> battery],
   position_quality |-> quality]

\* healthy, critical battery, poor position fix
Telemetries ==
  { Telemetry(P0, 950, 900), Telemetry(P1, 50, 900), Telemetry(P2, 450, 200) }

Registration(rho, tau, pattern, telemetry) ==
  [rho |-> rho, tau |-> tau, initialPattern |-> pattern, telemetry |-> telemetry]

Registrations ==
  { Registration("crazyflie-2.1", "bare", HP, Telemetry(P0, 950, 900)),
    Registration("crazyflie-2.1", "bare", HP, Telemetry(P1, 50, 900)),
    Registration("crazyflie-2.1", "bare", << >>, Telemetry(P2, 950, 900)),
    Registration("esp-drone", "camera-equipped", GHOST, Telemetry(P2, 450, 200)) }

DEFAULT_ROLE_CONFIG ==
  [batteryChargeThreshold |-> 150, batteryReturnThreshold |-> 900,
   roleHysteresisTickCount |-> 10]

DEFAULT_COORDINATOR_CONFIG ==
  [tickIntervalMs |-> 10, roleReassignmentInterval |-> 100, commRange |-> 5,
   staleThresholdMs |-> 500, roleConfig |-> DEFAULT_ROLE_CONFIG]

Formation(minPerformers, needsLeader) ==
  [minPerformers |-> minPerformers, needsLeader |-> needsLeader,
   center |-> Vec3(0, 0, 1)]

Coverage(needsRelay) == [coverageRadius |-> 3, needsRelay |-> needsRelay]

Setup(cat, cfg, objs, form, cov) ==
  [catalog |-> cat, config |-> cfg, objectives |-> objs, formation |-> form,
   coverage |-> cov]

\* A show that is landing, roles reassigned on every tick
LandingShow ==
  Setup(Catalog(FullPatterns, SomeRules),
        [DEFAULT_COORDINATOR_CONFIG EXCEPT !.roleReassignmentInterval = 1,
                                           !.roleConfig.roleHysteresisTickCount = 2],
        << [type |-> "land-all"] >>, Formation(1, TRUE), Coverage(FALSE))

\* A show in flight, roles reassigned on every second tick
FlyingShow ==
  Setup(Catalog(FullPatterns, SomeRules),
        [DEFAULT_COORDINATOR_CONFIG EXCEPT !.roleReassignmentInterval = 2],
        << [type |-> "translate"], [type |-> "hover"] >>,
        Formation(0, FALSE), Coverage(TRUE))

\* A catalog without the ground and emergency patterns, no objectives
PartialShow ==
  Setup(Catalog(<< PHover, PTranslate >>, NoRules),
        [DEFAULT_COORDINATOR_CONFIG EXCEPT !.roleReassignmentInterval = 1],
        << >>, Formation(1, TRUE), Coverage(TRUE))

Setups == { LandingShow, FlyingShow, PartialShow }

\* ------------------------------------------------------------------------
\* Bounds
\* ------------------------------------------------------------------------

MaxOps == 3

MaxTicks == 2

MaxTime == 600

TimeStep == 600

\* ------------------------------------------------------------------------
\* State
\* ------------------------------------------------------------------------

VARIABLES
  catalog,         \* Coordinator.catalog
  config,          \* Coordinator.config
  world,           \* Coordinator.world
  objectives,      \* Coordinator.objectives
  formation,       \* Coordinator.formation
  coverage,        \* Coordinator.coverage
  roleTickCounts,  \* Coordinator.roleTickCounts
  tickCount,       \* Coordinator.tickCount
  now,             \* Date.now()
  initialPattern,  \* history: the initialPattern each drone was registered with
  last,            \* history: what the last tick computed and returned
  ops,             \* number of calls of the public API and the callbacks
  out,             \* history: the last direct call of a function and its result
  running,         \* Coordinator.running
  loopInterval,    \* Coordinator.loopInterval: TRUE when a timer handle is held
  timers,          \* the number of live interval timers that call tick()
  connected,       \* SimComms._connected
  stopLog          \* history: what the last call of stop() did

vars ==
  << catalog, config, world, objectives, formation, coverage, roleTickCounts,
     tickCount, now, initialPattern, last, ops, out,
     running, loopInterval, timers, connected, stopLog >>

NoTick ==
  [tick |-> 0, assignments |-> << >>, forcedChanges |-> << >>,
   roleChanges |-> NoRoleChanges, sent |-> << >>]

NoCall == [fn |-> "none"]

NoStop ==
  [calls |-> 0, due |-> << >>, attempted |-> << >>, threw |-> FALSE,
   disconnected |-> FALSE, shutdown |-> FALSE]

\* The field initialisers of Coordinator and SimComms
Constructed ==
  /\ running = FALSE
  /\ loopInterval = FALSE
  /\ timers = 0
  /\ connected = FALSE
  /\ stopLog = NoStop

Lifecycle == << running, loopInterval, timers, connected, stopLog >>

\* new Coordinator(comms, catalog, config), then the caller sets the public
\* fields objectives, formation and coverage
Init ==
  \E s \in Setups :
    /\ catalog = s.catalog
    /\ config = s.config
    /\ world = [config |-> [commRange |-> s.config.commRange,
                            staleThresholdMs |-> s.config.staleThresholdMs],
                order |-> << >>, drones |-> EmptyFn]
    /\ objectives = s.objectives
    /\ formation = s.formation
    /\ coverage = s.coverage
    /\ roleTickCounts = EmptyFn
    /\ tickCount = 0
    /\ now = 0
    /\ initialPattern = EmptyFn
    /\ last = NoTick
    /\ ops = 0
    /\ out = NoCall
    /\ Constructed

Frame ==
  UNCHANGED << catalog, config, objectives, formation, coverage, out, Lifecycle >>

\* coordinator.registerDrone(id, rho, tau, initialPattern, telemetry)
\* (ids are first registered in the order of DroneIds: the ids are
\* interchangeable; any registered id may be registered again)
RegisterDrone ==
  \E i \in 1..Len(DroneIds), reg \in Registrations :
    /\ ops < MaxOps
    /\ \A j \in 1..(i - 1) : DroneIds[j] \in DOMAIN initialPattern
    /\ world' = addDrone(world, DroneIds[i], reg.rho, reg.tau,
                         reg.initialPattern, reg.telemetry, now)
    /\ initialPattern' = FnSet(initialPattern, DroneIds[i], reg.initialPattern)
    /\ ops' = ops + 1
    /\ Frame
    /\ UNCHANGED << roleTickCounts, tickCount, now >>
    /\ last' = NoTick

\* coordinator.world.removeDrone(id)
RemoveDrone ==
  \E id \in DOMAIN world.drones :
    /\ ops < MaxOps
    /\ world' = removeDrone(world, id)
    /\ ops' = ops + 1
    /\ Frame
    /\ UNCHANGED << roleTickCounts, tickCount, now, initialPattern >>
    /\ last' = NoTick

\* The telemetry callback: handleTelemetry({droneId, state})
HandleTelemetry ==
  \E id \in Range(DroneIds), t \in Telemetries :
    /\ ops < MaxOps
    /\ world' = IF getDrone(world, id) # None
                THEN updateTelemetry(world, id, t, now) ELSE world
    /\ ops' = ops + 1
    /\ Frame
    /\ UNCHANGED << roleTickCounts, tickCount, now, initialPattern >>
    /\ last' = NoTick

\* The clock advances between handlers
AdvanceTime ==
  /\ now < MaxTime
  /\ now' = now + TimeStep
  /\ Frame
  /\ UNCHANGED << world, roleTickCounts, tickCount, initialPattern, ops >>
  /\ last' = NoTick

CoordinatorState ==
  [catalog |-> catalog, config |-> config, world |-> world,
   objectives |-> objectives, formation |-> formation, coverage |-> coverage,
   roleTickCounts |-> roleTickCounts, tickCount |-> tickCount, now |-> now,
   connected |-> connected]

\* coordinator.tick()
Tick ==
  /\ tickCount < MaxTicks
  /\ \E t \in { tick(CoordinatorState) } :
         /\ tickCount' = t.tickCount
         /\ world' = t.world
         /\ roleTickCounts' = t.roleTickCounts
         /\ last' = [tick |-> t.tickCount, assignments |-> t.assignments,
                     forcedChanges |-> t.forcedChanges,
                     roleChanges |-> t.roleChanges, sent |-> t.sent]
  /\ Frame
  /\ UNCHANGED << now, initialPattern, ops >>

Next ==
  \/ RegisterDrone
  \/ RemoveDrone
  \/ HandleTelemetry
  \/ AdvanceTime
  \/ Tick

Spec == Init /\ [][Next]_vars

\* ------------------------------------------------------------------------
\* World models built through the WorldModel API, for the functions that
\* are called on a world model directly
\* ------------------------------------------------------------------------

MaxDrones == 3

WorldIds == << "d0", "d1", "d2", "d3", "d4" >>

\* Drone number i reports from the i-th point of a line of points 5 apart
Pos(i) == Vec3(3 * (i - 1), 4 * (i - 1), 0)

\* What is done with one drone: addDrone at time `at` with this battery and
\* pattern, updatePattern with these coordinates, and, if refresh, one more
\* updateTelemetry of the same telemetry once every drone has its coordinates
Kind(battery, pattern, sigma, chi, lambda, at, refresh) ==
  [battery |-> battery, pattern |-> pattern, sigma |-> sigma, chi |-> chi,
   lambda |-> lambda, at |-> at, refresh |-> refresh]

EmptyWorld ==
  [config |-> [commRange |-> DEFAULT_COORDINATOR_CONFIG.commRange,
               staleThresholdMs |-> DEFAULT_COORDINATOR_CONFIG.staleThresholdMs],
   order |-> << >>, drones |-> EmptyFn]

RECURSIVE AddAll(_, _, _)
AddAll(w, kinds, i) ==
  IF i > Len(kinds) THEN w
  ELSE AddAll(addDrone(w, WorldIds[i], "crazyflie-2.1", "bare",
                       kinds[i].pattern,
                       Telemetry(Pos(i), kinds[i].battery, 900), kinds[i].at),
              kinds, i + 1)

RECURSIVE PatternAll(_, _, _)
PatternAll(w, kinds, i) ==
  IF i > Len(kinds) THEN w
  ELSE PatternAll(updatePattern(w, WorldIds[i], kinds[i].pattern,
                                kinds[i].sigma, "autonomous", kinds[i].chi,
                                kinds[i].lambda),
                  kinds, i + 1)

RECURSIVE RefreshAll(_, _, _)
RefreshAll(w, kinds, i) ==
  IF i > Len(kinds) THEN w
  ELSE RefreshAll(IF kinds[i].refresh
                  THEN updateTelemetry(w, WorldIds[i],
                         Telemetry(Pos(i), kinds[i].battery, 900), kinds[i].at)
                  ELSE w,
                  kinds, i + 1)

\* The calls above, then markStaleDrones at time MaxTime
BuildWorld(kinds) ==
  markStaleDrones(
    RefreshAll(PatternAll(AddAll(EmptyWorld, kinds, 1), kinds, 1), kinds, 1),
    MaxTime)

\* The world models of at most MaxDrones drones, each of one of the kinds
Worlds(kinds) ==
  { BuildWorld(ks) : ks \in UNION { [1..n -> kinds] : n \in 0..MaxDrones } }

\* ------------------------------------------------------------------------
\* assignRoles called on a world model
\* ------------------------------------------------------------------------

\* fresh performers of high, low and middle battery, a reserve on the ground,
\* charging drones below and above the return threshold, a tired leader and
\* relay, a drone on its way to the charger, a stale performer
RoleKinds ==
  { Kind(950, HP, "hover", "performer", "shared-corridor", MaxTime, FALSE),
    Kind(50, HP, "hover", "performer", "shared-corridor", MaxTime, FALSE),
    Kind(450, HP, "hover", "performer", "shared-corridor", MaxTime, FALSE),
    Kind(950, GR, "grounded", "reserve", "shared-corridor", MaxTime, FALSE),
    Kind(50, GR, "grounded", "charging", "shared-corridor", MaxTime, FALSE),
    Kind(950, HP, "hover", "charger-outbound", "shared-corridor", MaxTime, FALSE),
    Kind(50, HL, "hover", "leader", "exclusive-volume", MaxTime, FALSE),
    Kind(50, HP, "hover", "relay", "shared-corridor", MaxTime, FALSE),
    Kind(50, HP, "hover", "performer", "shared-corridor", 0, FALSE) }

\* Tick-count maps: no entry, every drone just changed, every drone settled
TickCountMaps(w) ==
  { EmptyFn, [id \in DOMAIN w.drones |-> 0],
    [id \in DOMAIN w.drones |-> DEFAULT_ROLE_CONFIG.roleHysteresisTickCount] }

InitRoles ==
  /\ catalog = Catalog(FullPatterns, SomeRules)
  /\ config = DEFAULT_COORDINATOR_CONFIG
  /\ world \in Worlds(RoleKinds)
  /\ objectives = << >>
  /\ formation \in { Formation(1, TRUE), Formation(0, FALSE) }
  /\ coverage \in { Coverage(TRUE), Coverage(FALSE) }
  /\ roleTickCounts \in TickCountMaps(world)
  /\ tickCount = 0
  /\ now = MaxTime
  /\ initialPattern = EmptyFn
  /\ last = NoTick
  /\ ops = 0
  /\ out = NoCall
  /\ Constructed

\* assignRoles(world, formation, coverage, config, roleTickCounts), with or
\* without the tick-count map
CallAssignRoles ==
  \E withCounts \in BOOLEAN :
    /\ out.fn = "none"
    /\ out' = [fn |-> "assignRoles", withCounts |-> withCounts,
               result |-> assignRoles(world, formation, coverage,
                            config.roleConfig,
                            IF withCounts THEN Some(roleTickCounts) ELSE None)]
    /\ UNCHANGED << catalog, config, world, objectives, formation, coverage,
                    roleTickCounts, tickCount, now, initialPattern, last, ops,
                    Lifecycle >>

SpecRoles == InitRoles /\ [][CallAssignRoles]_vars

\* ------------------------------------------------------------------------
\* solveAssignment called on a world model
\* ------------------------------------------------------------------------

\* hovering drones of high, middling and critical battery, translating
\* drones of high and critical battery, a drone without pattern, a drone with
\* a pattern no catalog has, a drone on the ground
SolveKinds ==
  { Kind(950, HP, "hover", "performer", "shared-corridor", MaxTime, FALSE),
    Kind(250, HP, "hover", "performer", "shared-corridor", MaxTime, TRUE),
    Kind(50, HP, "hover", "performer", "shared-corridor", MaxTime, TRUE),
    Kind(950, TP, "translate", "performer", "shared-corridor", MaxTime, TRUE),
    Kind(50, TP, "translate", "performer", "shared-corridor", MaxTime, FALSE),
    Kind(950, << >>, "grounded", "reserve", "shared-corridor", MaxTime, TRUE),
    Kind(950, GHOST, "grounded", "reserve", "shared-corridor", MaxTime, FALSE),
    Kind(950, GR, "grounded", "reserve", "shared-corridor", MaxTime, TRUE) }

\* the full catalog; one without ground and emergency patterns; one without
\* any hover pattern or pattern of battery_floor 0
SolveCatalogs ==
  { Catalog(FullPatterns, SomeRules),
    Catalog(<< PHover, PTranslate >>, SomeRules),
    Catalog(<< PTranslate >>, NoRules) }

GhostId == "ghost"

Reverse(s) == [i \in 1..Len(s) |-> s[Len(s) + 1 - i]]

\* Affected sets, in insertion order: every drone, in Map order and in
\* reverse order; the first drone alone; an unknown id, then every drone
AffectedSets(w) ==
  { w.order, Reverse(w.order), SubSeq(w.order, 1, Min(1, Len(w.order))),
    << GhostId >> \o w.order }

InitSolve ==
  /\ catalog \in SolveCatalogs
  /\ config = DEFAULT_COORDINATOR_CONFIG
  /\ world \in Worlds(SolveKinds)
  /\ objectives \in { << >>, << [type |-> "translate"], [type |-> "land-all"] >> }
  /\ formation = Formation(1, TRUE)
  /\ coverage = Coverage(FALSE)
  /\ roleTickCounts = EmptyFn
  /\ tickCount = 0
  /\ now = MaxTime
  /\ initialPattern = EmptyFn
  /\ last = NoTick
  /\ ops = 0
  /\ out = NoCall
  /\ Constructed

\* solveAssignment(world, catalog, affectedDrones, objectives)
CallSolveAssignment ==
  \E affected \in AffectedSets(world) :
    /\ out.fn = "none"
    /\ out' = [fn |-> "solveAssignment", affected |-> affected,
               result |-> solveAssignment(world, catalog, affected, objectives)]
    /\ UNCHANGED << catalog, config, world, objectives, formation, coverage,
                    roleTickCounts, tickCount, now, initialPattern, last, ops,
                    Lifecycle >>

SpecSolve == InitSolve /\ [][CallSolveAssignment]_vars

\* ------------------------------------------------------------------------
\* computeBlastRadius called on a world model
\* ------------------------------------------------------------------------

\* leaders, followers and relays whose neighbour graph was recomputed once
\* every role was known, a follower and a performer whose graph dates from
\* their registration, a performer with a recomputed graph
BlastKinds ==
  { Kind(950, HL, "hover", "leader", "exclusive-volume", MaxTime, TRUE),
    Kind(950, HP, "hover", "follower", "shared-corridor", MaxTime, TRUE),
    Kind(950, HP, "hover", "follower", "shared-corridor", MaxTime, FALSE),
    Kind(950, HP, "hover", "relay", "comm-bridge", MaxTime, TRUE),
    Kind(950, HP, "hover", "performer", "shared-corridor", MaxTime, TRUE),
    Kind(950, HP, "hover", "performer", "shared-corridor", MaxTime, FALSE) }

InitBlast ==
  /\ catalog = Catalog(FullPatterns, SomeRules)
  /\ config = DEFAULT_COORDINATOR_CONFIG
  /\ world \in Worlds(BlastKinds)
  /\ objectives = << >>
  /\ formation = Formation(1, TRUE)
  /\ coverage = Coverage(FALSE)
  /\ roleTickCounts = EmptyFn
  /\ tickCount = 0
  /\ now = MaxTime
  /\ initialPattern = EmptyFn
  /\ last = NoTick
  /\ ops = 0
  /\ out = NoCall
  /\ Constructed

\* computeBlastRadius(changedDroneId, world)
CallComputeBlastRadius ==
  \E id \in DOMAIN world.drones \cup { GhostId } :
    /\ out.fn = "none"
    /\ out' = [fn |-> "computeBlastRadius", changedDroneId |-> id,
               result |-> computeBlastRadius(id, world)]
    /\ UNCHANGED << catalog, config, world, objectives, formation, coverage,
                    roleTickCounts, tickCount, now, initialPattern, last, ops,
                    Lifecycle >>

SpecBlast == InitBlast /\ [][CallComputeBlastRadius]_vars

\* ------------------------------------------------------------------------
\* computeCascadingBlastRadius called on a world model
\* ------------------------------------------------------------------------

\* a leader and a stale performer whose neighbour graphs were recomputed once
\* every drone was registered, a follower whose graph dates from its
\* registration
CascadeKinds ==
  { Kind(950, HL, "hover", "leader", "exclusive-volume", MaxTime, TRUE),
    Kind(950, HP, "hover", "follower", "shared-corridor", MaxTime, FALSE),
    Kind(950, HP, "hover", "performer", "shared-corridor", 0, TRUE) }

\* Every drone of ids reports position pos, at the time of its last report
RECURSIVE ReportAll(_, _, _)
ReportAll(w, ids, pos) ==
  IF ids = << >> THEN w
  ELSE LET drone == w.drones[Head(ids)]
       IN  ReportAll(updateTelemetry(w, Head(ids),
                                     [drone.lastTelemetry EXCEPT !.position = pos],
                                     drone.lastUpdate),
                     Tail(ids), pos)

\* The swarm gathers at one point: every drone reports from there, twice, so
\* that every drone is a stored neighbour of every other drone
Gather(w) ==
  markStaleDrones(ReportAll(ReportAll(w, w.order, Pos(1)), w.order, Pos(1)),
                  MaxTime)

\* The drone registered last is removed; its neighbours still name it
Forget(w) ==
  IF w.order = << >> THEN w ELSE removeDrone(w, w.order[Len(w.order)])

CascadeWorlds ==
  UNION { { w, Gather(w), Forget(w) } : w \in Worlds(CascadeKinds) }

\* The subsequences of a sequence
RECURSIVE SubSeqs(_)
SubSeqs(s) ==
  IF s = << >> THEN { << >> }
  ELSE LET rest == SubSeqs(Tail(s))
       IN  rest \cup { << Head(s) >> \o r : r \in rest }

\* The ids a changed set is drawn from: the drones of the world model and,
\* while the world model is not full, an id it does not have
ChangedIds(w) ==
  IF Len(w.order) < MaxDrones THEN w.order \o << GhostId >> ELSE w.order

\* The predicates: none, or the set of drones the predicate is true for
Predicates(w) == { None } \cup { Some(would) : would \in SUBSET Range(w.order) }

\* What one call did: the affected Set, the ids wouldChangePattern was
\* invoked with, and the number of iterations of the while loop
Cascade(changedDroneIds, w, wouldChangePattern) ==
  IF wouldChangePattern = None
  THEN [affected |-> computeCascadingBlastRadius(changedDroneIds, w, None),
        calls |-> << >>, rounds |-> 0]
  ELSE LET run == CascadeRun(changedDroneIds, w, wouldChangePattern[1])
       IN  [affected |-> computeCascadingBlastRadius(changedDroneIds, w,
                                                     wouldChangePattern),
            calls |-> run.calls, rounds |-> run.rounds]

InitCascade ==
  /\ catalog = Catalog(FullPatterns, SomeRules)
  /\ config = DEFAULT_COORDINATOR_CONFIG
  /\ world \in CascadeWorlds
  /\ objectives = << >>
  /\ formation = Formation(1, TRUE)
  /\ coverage = Coverage(FALSE)
  /\ roleTickCounts = EmptyFn
  /\ tickCount = 0
  /\ now = MaxTime
  /\ initialPattern = EmptyFn
  /\ last = NoTick
  /\ ops = 0
  /\ out = NoCall
  /\ Constructed

\* computeCascadingBlastRadius(changedDroneIds, world, wouldChangePattern),
\* called for a changed set and for a changed set that contains it
CallComputeCascadingBlastRadius ==
  \E larger \in SubSeqs(ChangedIds(world)), wouldChangePattern \in Predicates(world) :
    \E changed \in SubSeqs(larger) :
      /\ out.fn = "none"
      /\ out' = [fn |-> "computeCascadingBlastRadius",
                 changedDroneIds |-> changed,
                 wouldChangePattern |-> wouldChangePattern,
                 call |-> Cascade(changed, world, wouldChangePattern),
                 larger |-> larger,
                 largerCall |-> Cascade(larger, world, wouldChangePattern)]
      /\ UNCHANGED << catalog, config, world, objectives, formation, coverage,
                      roleTickCounts, tickCount, now, initialPattern, last, ops,
                    Lifecycle >>

SpecCascade == InitCascade /\ [][CallComputeCascadingBlastRadius]_vars

\* ------------------------------------------------------------------------
\* isPatternTransitionValid and isCompatible called on a catalog
\* ------------------------------------------------------------------------

AV == << "a", "v" >>   \* avoid, performer

\* A hover pattern and an avoid pattern that list themselves as source and
\* as target
PHoverSelf ==
  Pattern(HP, Core("hover", "autonomous", "performer", "shared-corridor"),
          200, 300, 0, << HP, TK, AV >>, << HP, TP, AV >>, << >>)

PAvoidSelf ==
  Pattern(AV, Core("avoid", "emergency", "performer", "shared-corridor"),
          0, 0, 0, << AV, HP >>, << AV, HP >>, << >>)

LookupPatterns == { FullPatterns, << PHoverSelf, PAvoidSelf, PTranslate >> }

\* Rules of every specificity, two exact rules for the same pair that
\* disagree, and an incompatible rule with a one-sided glob
RulePool ==
  << Rule(<< "*" >>, << "*" >>, TRUE, 1),
     Rule(<< "h", "*" >>, << "h", "*" >>, TRUE, 4),
     Rule(HP, TP, FALSE, 0),
     Rule(<< "*", "e" >>, << "*" >>, TRUE, 4),
     Rule(TP, HP, TRUE, 0),
     Rule(<< "*" >>, << "h", "*" >>, FALSE, 0) >>

\* The rule lists: the sublists of the pool, in both orders
RuleLists == UNION { { rules, Reverse(rules) } : rules \in SubSeqs(RulePool) }

LookupIds == { GR, TK, HP, TP, EL, HL, AV, GHOST }

Separations == { 0, 1, 4 }

InitLookup ==
  /\ catalog \in { Catalog(patterns, rules) :
                     patterns \in LookupPatterns, rules \in RuleLists }
  /\ config = DEFAULT_COORDINATOR_CONFIG
  /\ world = EmptyWorld
  /\ objectives = << >>
  /\ formation = Formation(1, TRUE)
  /\ coverage = Coverage(FALSE)
  /\ roleTickCounts = EmptyFn
  /\ tickCount = 0
  /\ now = 0
  /\ initialPattern = EmptyFn
  /\ last = NoTick
  /\ ops = 0
  /\ out = NoCall
  /\ Constructed

\* isPatternTransitionValid(catalog, fromId, toId)
CallIsPatternTransitionValid ==
  \E fromId \in LookupIds, toId \in LookupIds :
    /\ out.fn = "none"
    /\ out' = [fn |-> "isPatternTransitionValid", fromId |-> fromId,
               toId |-> toId,
               result |-> isPatternTransitionValid(catalog, fromId, toId)]
    /\ UNCHANGED << catalog, config, world, objectives, formation, coverage,
                    roleTickCounts, tickCount, now, initialPattern, last, ops,
                    Lifecycle >>

\* isCompatible(catalog, patternA, patternB, separation_m), and the call with
\* the two pattern ids exchanged
CallIsCompatible ==
  \E patternA \in LookupIds, patternB \in LookupIds, separation_m \in Separations :
    /\ out.fn = "none"
    /\ out' = [fn |-> "isCompatible", patternA |-> patternA,
               patternB |-> patternB, separation_m |-> separation_m,
               result |-> isCompatible(catalog, patternA, patternB, separation_m),
               exchanged |-> isCompatible(catalog, patternB, patternA, separation_m)]
    /\ UNCHANGED << catalog, config, world, objectives, formation, coverage,
                    roleTickCounts, tickCount, now, initialPattern, last, ops,
                    Lifecycle >>

NextLookup == CallIsPatternTransitionValid \/ CallIsCompatible

SpecLookup == InitLookup /\ [][NextLookup]_vars

\* ------------------------------------------------------------------------
\* start(), stop() and the telemetry callback
\* ------------------------------------------------------------------------

\* The loop of landAll over world.drones.values(); l is
\* [due, attempted, threw]: the drones with a land or grounded pattern for
\* their hardware met so far, the drones sendCommand was called for, and
\* whether a sendCommand threw, which ends the loop and rejects landAll
RECURSIVE LandLoop(_, _, _, _, _)
LandLoop(ids, w, cat, conn, l) ==
  IF ids = << >> \/ l.threw THEN l
  ELSE LET drone == w.drones[Head(ids)]
           isLand(p) == /\ p.core.rho = drone.coordinate.rho
                        /\ p.core.tau = drone.coordinate.tau
                        /\ (p.core.sigma = "land" \/ p.core.sigma = "grounded")
           landPatterns == SelectSeq(cat.patterns, isLand)
       IN  IF Len(landPatterns) > 0
           THEN LandLoop(Tail(ids), w, cat, conn,
                         [due |-> Append(l.due, drone.id),
                          attempted |-> Append(l.attempted, drone.id),
                          threw |-> ~conn])
           ELSE LandLoop(Tail(ids), w, cat, conn, l)

landAll(w, cat, conn) ==
  LandLoop(w.order, w, cat, conn,
           [due |-> << >>, attempted |-> << >>, threw |-> FALSE])

\* The drones of w that have a land or grounded pattern for their hardware,
\* in the order of the world model
RECURSIVE DueLoop(_, _, _)
DueLoop(ids, w, cat) ==
  IF ids = << >> THEN << >>
  ELSE LET drone == w.drones[Head(ids)]
           isLand(p) == /\ p.core.rho = drone.coordinate.rho
                        /\ p.core.tau = drone.coordinate.tau
                        /\ (p.core.sigma = "land" \/ p.core.sigma = "grounded")
       IN  (IF \E i \in 1..Len(cat.patterns) : isLand(cat.patterns[i])
            THEN << drone.id >> ELSE << >>) \o DueLoop(Tail(ids), w, cat)

\* The drones registered before the coordinator is started
LifecycleRegistrations ==
  { Registration("crazyflie-2.1", "bare", HP, Telemetry(P0, 950, 900)),
    Registration("esp-drone", "camera-equipped", GHOST, Telemetry(P2, 450, 200)) }

RECURSIVE RegisterAll(_, _, _)
RegisterAll(w, regs, i) ==
  IF i > Len(regs) THEN w
  ELSE RegisterAll(addDrone(w, DroneIds[i], regs[i].rho, regs[i].tau,
                            regs[i].initialPattern, regs[i].telemetry, 0),
                   regs, i + 1)

\* new Coordinator(comms, catalog, config) with a new SimComms, then
\* registerDrone for each drone of the show
InitLifecycle ==
  \E s \in Setups :
    \E regs \in UNION { [1..n -> LifecycleRegistrations] : n \in 0..Len(DroneIds) } :
      /\ catalog = s.catalog
      /\ config = s.config
      /\ world = RegisterAll([config |-> [commRange |-> s.config.commRange,
                                          staleThresholdMs |-> s.config.staleThresholdMs],
                              order |-> << >>, drones |-> EmptyFn], regs, 1)
      /\ objectives = s.objectives
      /\ formation = s.formation
      /\ coverage = s.coverage
      /\ roleTickCounts = EmptyFn
      /\ tickCount = 0
      /\ now = 0
      /\ initialPattern = [id \in { DroneIds[i] : i \in 1..Len(regs) } |->
                             LET i == CHOOSE i \in 1..Len(regs) : DroneIds[i] = id
                             IN  regs[i].initialPattern]
      /\ last = NoTick
      /\ ops = 0
      /\ out = NoCall
      /\ Constructed

LifecycleFrame ==
  UNCHANGED << catalog, config, objectives, formation, coverage, out,
               world, roleTickCounts, tickCount, now, initialPattern >>

\* coordinator.start(droneIds), every id known to the SimComms: connect, then
\* running and a new interval timer whose handle replaces the one held
Start ==
  /\ ops < MaxOps
  /\ connected' = TRUE
  /\ running' = TRUE
  /\ timers' = timers + 1
  /\ loopInterval' = TRUE
  /\ ops' = ops + 1
  /\ last' = NoTick
  /\ LifecycleFrame
  /\ UNCHANGED stopLog

\* coordinator.stop(): running is cleared, the timer held is cancelled, then
\* landAll, comms.disconnect() and onShutdown, the last two only when landAll
\* did not reject
Stop ==
  /\ ops < MaxOps
  /\ running' = FALSE
  /\ timers' = IF loopInterval THEN timers - 1 ELSE timers
  /\ loopInterval' = FALSE
  /\ \E l \in { landAll(world, catalog, connected) } :
       /\ connected' = IF l.threw THEN connected ELSE FALSE
       /\ stopLog' = [calls |-> stopLog.calls + 1,
                      due |-> DueLoop(world.order, world, catalog),
                      attempted |-> l.attempted, threw |-> l.threw,
                      disconnected |-> ~l.threw, shutdown |-> ~l.threw]
  /\ ops' = ops + 1
  /\ last' = NoTick
  /\ LifecycleFrame

\* One of the interval timers set by start() fires
TimerFires ==
  /\ timers > 0
  /\ Tick

NextLifecycle ==
  \/ Start
  \/ Stop
  \/ HandleTelemetry
  \/ AdvanceTime
  \/ TimerFires

SpecLifecycle == InitLifecycle /\ [][NextLifecycle]_vars

\* ------------------------------------------------------------------------
\* The role hold counters over a run of ticks
\* ------------------------------------------------------------------------

\* Shows whose hysteresis is longer than one role round
HysteresisSetups ==
  { Setup(Catalog(FullPatterns, SomeRules),
          [DEFAULT_COORDINATOR_CONFIG EXCEPT !.roleReassignmentInterval = 1,
                                             !.roleConfig.roleHysteresisTickCount = 3],
          << [type |-> "hover"] >>, Formation(1, TRUE), Coverage(FALSE)),
    Setup(Catalog(FullPatterns, SomeRules),
          [DEFAULT_COORDINATOR_CONFIG EXCEPT !.roleReassignmentInterval = 2,
                                             !.roleConfig.roleHysteresisTickCount = 2],
          << [type |-> "hover"] >>, Formation(1, TRUE), Coverage(TRUE)) }

HysteresisRegistrations ==
  { Registration("crazyflie-2.1", "bare", HP, Telemetry(P0, 950, 900)),
    Registration("crazyflie-2.1", "bare", HL, Telemetry(P1, 950, 900)) }

HysteresisTicks == MaxTicks + 1

\* history: the tick at which the role engine last emitted a change for each
\* drone, and the tick of the change it emitted for the drone before that one
NoChanges == [fn |-> "tick", changedAt |-> EmptyFn, previous |-> EmptyFn]

InitHysteresis ==
  \E s \in HysteresisSetups :
    \E regs \in [1..Len(DroneIds) -> HysteresisRegistrations] :
      /\ regs[1].initialPattern = HP
      /\ catalog = s.catalog
      /\ config = s.config
      /\ world = RegisterAll([config |-> [commRange |-> s.config.commRange,
                                          staleThresholdMs |-> s.config.staleThresholdMs],
                              order |-> << >>, drones |-> EmptyFn], regs, 1)
      /\ objectives = s.objectives
      /\ formation = s.formation
      /\ coverage = s.coverage
      /\ roleTickCounts = EmptyFn
      /\ tickCount = 0
      /\ now = 0
      /\ initialPattern = [id \in Range(DroneIds) |->
                             LET i == CHOOSE i \in 1..Len(regs) : DroneIds[i] = id
                             IN  regs[i].initialPattern]
      /\ last = NoTick
      /\ ops = 0
      /\ out = NoChanges
      /\ Constructed

\* coordinator.tick(), with the ticks of the role changes recorded
TickRecorded ==
  /\ tickCount < HysteresisTicks
  /\ \E t \in { tick(CoordinatorState) } :
         /\ tickCount' = t.tickCount
         /\ world' = t.world
         /\ roleTickCounts' = t.roleTickCounts
         /\ last' = [tick |-> t.tickCount, assignments |-> t.assignments,
                     forcedChanges |-> t.forcedChanges,
                     roleChanges |-> t.roleChanges, sent |-> t.sent]
         /\ out' = [out EXCEPT
                      !.changedAt =
                        [id \in DOMAIN @ \cup Range(t.roleChanges.keys) |->
                           IF id \in Range(t.roleChanges.keys) THEN t.tickCount
                           ELSE @[id]],
                      !.previous =
                        [id \in DOMAIN @ \cup (DOMAIN out.changedAt
                                               \cap Range(t.roleChanges.keys)) |->
                           IF id \in Range(t.roleChanges.keys)
                           THEN out.changedAt[id] ELSE @[id]]]
  /\ UNCHANGED << catalog, config, objectives, formation, coverage, Lifecycle,
                  now, initialPattern, ops >>

NextHysteresis ==
  \/ TickRecorded
  \/ HandleTelemetry
  \/ AdvanceTime

SpecHysteresis == InitHysteresis /\ [][NextHysteresis]_vars

\* ------------------------------------------------------------------------
\* isTransitionValid called along a walk through the behavioral modes
\* ------------------------------------------------------------------------

\* The longest walk
MaxWalk == MaxOps + 1

\* A walk starts in any mode; tookOff tells whether it has been in takeoff
InitTransitions ==
  /\ catalog = Catalog(FullPatterns, SomeRules)
  /\ config = DEFAULT_COORDINATOR_CONFIG
  /\ world = EmptyWorld
  /\ objectives = << >>
  /\ formation = Formation(1, TRUE)
  /\ coverage = Coverage(FALSE)
  /\ roleTickCounts = EmptyFn
  /\ tickCount = 0
  /\ now = 0
  /\ initialPattern = EmptyFn
  /\ last = NoTick
  /\ ops = 0
  /\ out \in { [fn |-> "isTransitionValid", start |-> m, sigma |-> m,
                steps |-> 0, tookOff |-> m = "takeoff"] :
                m \in Range(BEHAVIORAL_MODES) }
  /\ Constructed

\* isTransitionValid(sigma, to) answers true and the walk moves on to `to`
CallIsTransitionValid ==
  \E to \in Range(BEHAVIORAL_MODES) :
    /\ out.steps < MaxWalk
    /\ to # out.sigma
    /\ isTransitionValid(out.sigma, to)
    /\ out' = [out EXCEPT !.sigma = to, !.steps = @ + 1,
                           !.tookOff = @ \/ to = "takeoff"]
    /\ UNCHANGED << catalog, config, world, objectives, formation, coverage,
                    roleTickCounts, tickCount, now, initialPattern, last, ops,
                    Lifecycle >>

SpecTransitions == InitTransitions /\ [][CallIsTransitionValid]_vars

\* ------------------------------------------------------------------------
\* assignRoles called on drones whose batteries are close to one another
\* ------------------------------------------------------------------------

\* Batteries 0.001 apart with the position quality falling as the battery
\* rises, and a battery below the charge threshold
LeaderTelemetries ==
  { [battery |-> 800, quality |-> 900], [battery |-> 801, quality |-> 800],
    [battery |-> 802, quality |-> 700], [battery |-> 100, quality |-> 900] }

RECURSIVE AddLeaders(_, _, _)
AddLeaders(w, ts, i) ==
  IF i > Len(ts) THEN w
  ELSE AddLeaders(addDrone(w, WorldIds[i], "crazyflie-2.1", "bare", GR,
                           Telemetry(Pos(i), ts[i].battery, ts[i].quality),
                           MaxTime),
                  ts, i + 1)

InitLeader ==
  /\ catalog = Catalog(FullPatterns, SomeRules)
  /\ config = DEFAULT_COORDINATOR_CONFIG
  /\ world \in { AddLeaders(EmptyWorld, ts, 1) :
                   ts \in UNION { [1..n -> LeaderTelemetries] : n \in 0..MaxDrones } }
  /\ objectives = << >>
  /\ formation \in { Formation(1, TRUE), Formation(0, TRUE) }
  /\ coverage = Coverage(FALSE)
  /\ roleTickCounts = EmptyFn
  /\ tickCount = 0
  /\ now = MaxTime
  /\ initialPattern = EmptyFn
  /\ last = NoTick
  /\ ops = 0
  /\ out = NoCall
  /\ Constructed

SpecLeader == InitLeader /\ [][CallAssignRoles]_vars

\* ------------------------------------------------------------------------
\* updateTelemetry called on a world model
\* ------------------------------------------------------------------------

\* A leader, a follower, and a performer that is stale
NeighborKinds ==
  { Kind(950, HL, "hover", "leader", "exclusive-volume", MaxTime, FALSE),
    Kind(950, HP, "hover", "follower", "shared-corridor", MaxTime, FALSE),
    Kind(950, HP, "hover", "performer", "shared-corridor", 0, FALSE) }

InitNeighbors ==
  /\ catalog = Catalog(FullPatterns, SomeRules)
  /\ config = DEFAULT_COORDINATOR_CONFIG
  /\ world \in Worlds(NeighborKinds)
  /\ objectives = << >>
  /\ formation = Formation(1, TRUE)
  /\ coverage = Coverage(FALSE)
  /\ roleTickCounts = EmptyFn
  /\ tickCount = 0
  /\ now = MaxTime
  /\ initialPattern = EmptyFn
  /\ last = NoTick
  /\ ops = 0
  /\ out = NoCall
  /\ Constructed

\* world.updateTelemetry(droneId, telemetry), for a drone of the world model
\* or an unknown id, from one of the points of the line
CallUpdateTelemetry ==
  \E i \in 1..(Len(world.order) + 1), p \in 1..MaxDrones :
    LET droneId == IF i > Len(world.order) THEN GhostId ELSE world.order[i]
        telemetry == Telemetry(Pos(p), 900, 900)
    IN  /\ out.fn = "none"
        /\ world' = updateTelemetry(world, droneId, telemetry, now)
        /\ out' = [fn |-> "updateTelemetry", droneId |-> droneId,
                   telemetry |-> telemetry, before |-> world]
        /\ UNCHANGED << catalog, config, objectives, formation, coverage,
                        roleTickCounts, tickCount, now, initialPattern, last,
                        ops, Lifecycle >>

SpecNeighbors == InitNeighbors /\ [][CallUpdateTelemetry]_vars

\* ------------------------------------------------------------------------
\* assignRoles called with tick-count maps that differ from drone to drone
\* ------------------------------------------------------------------------

\* performers of low and middle battery, drones of high and of low battery
\* that have left the charger, a drone that has finished charging, a reserve
\* on the ground
CountKinds ==
  { Kind(50, HP, "hover", "performer", "shared-corridor", MaxTime, FALSE),
    Kind(50, HP, "hover", "charger-outbound", "shared-corridor", MaxTime, FALSE),
    Kind(450, HP, "hover", "performer", "shared-corridor", MaxTime, FALSE),
    Kind(950, HP, "hover", "charger-outbound", "shared-corridor", MaxTime, FALSE),
    Kind(950, GR, "grounded", "charging", "shared-corridor", MaxTime, FALSE),
    Kind(950, GR, "grounded", "reserve", "shared-corridor", MaxTime, FALSE) }

\* Tick-count maps: some of the drones have a counter one tick short of
\* roleHysteresisTickCount and the others none, or every drone has a counter
\* that has reached it
MixedTickCountMaps(w) ==
  LET H == DEFAULT_ROLE_CONFIG.roleHysteresisTickCount
  IN  { [id \in ids |-> H - 1] : ids \in SUBSET DOMAIN w.drones }
        \cup { [id \in DOMAIN w.drones |-> H] }

InitCounts ==
  /\ catalog = Catalog(FullPatterns, SomeRules)
  /\ config = DEFAULT_COORDINATOR_CONFIG
  /\ world \in Worlds(CountKinds)
  /\ objectives = << >>
  /\ formation = Formation(1, TRUE)
  /\ coverage \in { Coverage(TRUE), Coverage(FALSE) }
  /\ roleTickCounts \in MixedTickCountMaps(world)
  /\ tickCount = 0
  /\ now = MaxTime
  /\ initialPattern = EmptyFn
  /\ last = NoTick
  /\ ops = 0
  /\ out = NoCall
  /\ Constructed

SpecCounts == InitCounts /\ [][CallAssignRoles]_vars

\* ------------------------------------------------------------------------
\* solveAssignment called on drones for which no candidate survives
\* ------------------------------------------------------------------------

HW == << "h", "w" >>   \* hover, low battery floor
TZ == << "k", "z" >>   \* takeoff, battery floor 0
HO == << "h", "o" >>   \* hover, other hardware
LO == << "l", "o" >>   \* land, other hardware

PHoverLow ==
  Pattern(HW, Core("hover", "autonomous", "performer", "shared-corridor"),
          100, 300, 0, << TK >>, << TP >>, << >>)

PTakeoffZero ==
  Pattern(TZ, Core("takeoff", "autonomous", "performer", "shared-corridor"),
          0, 0, 0, << GR >>, << HP >>, << >>)

PHoverOther ==
  Pattern(HO, [Core("hover", "autonomous", "performer", "shared-corridor")
                 EXCEPT !.rho = "esp-drone"],
          0, 0, 0, << >>, << >>, << >>)

PLandOther ==
  Pattern(LO, [Core("land", "emergency", "performer", "shared-corridor")
                 EXCEPT !.tau = "camera-equipped"],
          0, 0, 0, << >>, << >>, << >>)

\* hover patterns of three battery floors, the lowest of the drones' hardware
\* in the middle; no hover pattern and a landing pattern after another
\* pattern of battery floor 0; no hover or landing pattern of the drones'
\* hardware; no hover pattern and no pattern of battery floor 0
FallbackCatalogs ==
  { Catalog(<< PHoverOther, PHover, PHoverLow, PHoverLeader, PTranslate >>, SomeRules),
    Catalog(<< PTranslate, PTakeoffZero, PEmergencyLand, PGrounded >>, SomeRules),
    Catalog(<< PLandOther, PTranslate, PTakeoffZero >>, SomeRules),
    Catalog(<< PTranslate, PTakeoff >>, SomeRules) }

\* a drone without pattern and of critical battery, a translating drone of
\* low battery, a drone with a pattern no catalog has, a hovering drone
FallbackKinds ==
  { Kind(50, << >>, "grounded", "reserve", "shared-corridor", MaxTime, TRUE),
    Kind(150, TP, "translate", "performer", "shared-corridor", MaxTime, TRUE),
    Kind(950, GHOST, "grounded", "reserve", "shared-corridor", MaxTime, FALSE),
    Kind(950, HP, "hover", "performer", "shared-corridor", MaxTime, TRUE) }

InitFallback ==
  /\ catalog \in FallbackCatalogs
  /\ config = DEFAULT_COORDINATOR_CONFIG
  /\ world \in Worlds(FallbackKinds)
  /\ objectives = << [type |-> "hover"] >>
  /\ formation = Formation(1, TRUE)
  /\ coverage = Coverage(FALSE)
  /\ roleTickCounts = EmptyFn
  /\ tickCount = 0
  /\ now = MaxTime
  /\ initialPattern = EmptyFn
  /\ last = NoTick
  /\ ops = 0
  /\ out = NoCall
  /\ Constructed

SpecFallback == InitFallback /\ [][CallSolveAssignment]_vars

\* ------------------------------------------------------------------------
\* solveAssignment called on drones with several candidates to score
\* ------------------------------------------------------------------------

\* drones without pattern of less than half and of high battery, hovering
\* drones of high and of less than half battery
ScoreKinds ==
  { Kind(450, << >>, "grounded", "performer", "shared-corridor", MaxTime, TRUE),
    Kind(950, << >>, "grounded", "reserve", "shared-corridor", MaxTime, TRUE),
    Kind(950, HP, "hover", "performer", "shared-corridor", MaxTime, TRUE),
    Kind(450, HP, "hover", "leader", "exclusive-volume", MaxTime, TRUE) }

\* no objective, one objective, two objectives of different sigma, one
\* objective twice
ScoreObjectives ==
  { << >>, << [type |-> "translate"] >>,
    << [type |-> "translate"], [type |-> "land-all"] >>,
    << [type |-> "translate"], [type |-> "translate"] >> }

InitScore ==
  /\ catalog = Catalog(FullPatterns, SomeRules)
  /\ config = DEFAULT_COORDINATOR_CONFIG
  /\ world \in Worlds(ScoreKinds)
  /\ objectives \in ScoreObjectives
  /\ formation = Formation(1, TRUE)
  /\ coverage = Coverage(FALSE)
  /\ roleTickCounts = EmptyFn
  /\ tickCount = 0
  /\ now = MaxTime
  /\ initialPattern = EmptyFn
  /\ last = NoTick
  /\ ops = 0
  /\ out = NoCall
  /\ Constructed

SpecScore == InitScore /\ [][CallSolveAssignment]_vars

\* ------------------------------------------------------------------------
\* Properties
\* ------------------------------------------------------------------------

\* catalog.patterns.has(id)
InCatalog(id) == \E i \in 1..Len(catalog.patterns) : catalog.patterns[i].id = id

\* The step is a run of tick()
IsTick == tickCount' = tickCount + 1

\* C1: in every reachable state, the currentPattern of every drone of the
\* world model is the id of a pattern of the catalog, or is the
\* initialPattern the drone was registered with.
C1_CurrentPatternKnown ==
  \A id \in DOMAIN world.drones :
    \/ InCatalog(world.drones[id].currentPattern)
    \/ world.drones[id].currentPattern = initialPattern[id]

\* C1 case: a tick has moved a drone away from the pattern it was registered
\* with, while another drone still holds an initialPattern outside the catalog
C1_Witness ==
  /\ last.tick > 0
  /\ \E id \in DOMAIN world.drones :
       /\ world.drones[id].currentPattern # initialPattern[id]
       /\ Len(last.sent) > 0
  /\ \E id \in DOMAIN world.drones :
       ~InCatalog(world.drones[id].currentPattern)

\* The target of the first forced exit of the drone's current pattern
\* whose condition is true on the drone's telemetry: None or Some(target)
FirstTrueExit(drone) ==
  LET here == { i \in 1..Len(catalog.patterns) :
                  catalog.patterns[i].id = drone.currentPattern }
      exits == catalog.patterns[CHOOSE i \in here : TRUE].postconditions.forced_exits
      true == { k \in 1..Len(exits) : evaluateCondition(exits[k].condition, drone) }
  IN  IF here = {} \/ true = {} THEN None
      ELSE Some(exits[CHOOSE k \in true : \A m \in true : k <= m].target_pattern)

\* The drones of the world model that are not stale once the tick running
\* at the current time has marked the stale ones
NonStaleAtTick ==
  { id \in DOMAIN world.drones :
      ~(now - world.drones[id].lastUpdate > world.config.staleThresholdMs) }

\* C2: in every tick, for every non-stale drone whose current pattern is in
\* the catalog and has a forced exit whose condition is true on the drone's
\* latest telemetry, if the target of the first such exit is in the catalog
\* then the assignments the tick returns contain (drone, target), whatever
\* the objectives and the neighbours are.
C2_ForcedExitAssigned ==
  [][IsTick =>
       \A id \in NonStaleAtTick :
         LET target == FirstTrueExit(world.drones[id])
         IN  (target # None /\ InCatalog(target[1])) =>
               \E k \in 1..Len(last'.assignments) :
                 last'.assignments[k] = [droneId |-> id, patternId |-> target[1]]
    ]_vars

\* C2 case: under the land-all objective a tick has returned the assignment of
\* a drone to the emergency target of its forced exit, and the drone now
\* holds that pattern
C2_Witness ==
  /\ last.tick > 0
  /\ \E k \in 1..Len(objectives) : objectives[k].type = "land-all"
  /\ \E k \in 1..Len(last.assignments) :
       /\ last.assignments[k].patternId = EL
       /\ last.assignments[k].droneId \in Range(last.forcedChanges)
       /\ world.drones[last.assignments[k].droneId].currentPattern = EL

\* C3: assignRoles maps to charger-inbound every active drone whose battery
\* is below batteryChargeThreshold and whose stored role is outside the
\* charging lifecycle, for every formation, coverage and tick-count map.
C3_LowBatteryToCharger ==
  out.fn = "assignRoles" =>
    \A id \in DOMAIN world.drones :
      ( /\ ~world.drones[id].stale
        /\ world.drones[id].lastTelemetry.battery.percentage
             < config.roleConfig.batteryChargeThreshold
        /\ world.drones[id].coordinate.chi
             \notin { "charging", "charger-inbound", "charger-outbound" } )
      => /\ id \in Range(out.result.keys)
         /\ out.result.val[id] = "charger-inbound"

\* C3 case: a low performer whose counter is below the hysteresis count is
\* sent to the charger by a call that also suppressed the change of another
\* drone, the formation needing a leader and the coverage a relay
C3_Witness ==
  /\ out.fn = "assignRoles"
  /\ out.withCounts
  /\ formation.needsLeader
  /\ coverage.needsRelay
  /\ \E id \in DOMAIN world.drones :
       /\ ~world.drones[id].stale
       /\ world.drones[id].coordinate.chi = "performer"
       /\ world.drones[id].lastTelemetry.battery.percentage < 150
       /\ id \in DOMAIN roleTickCounts
       /\ roleTickCounts[id] = 0
       /\ out.result.val[id] = "charger-inbound"
  /\ \E id \in DOMAIN world.drones :
       /\ world.drones[id].coordinate.chi = "charger-outbound"
       /\ id \notin Range(out.result.keys)

\* C4: every assignment (d, p) that solveAssignment returns has p in the
\* catalog, unless p is d's currentPattern and that pattern is not in the
\* catalog.
C4_AssignedPatternInCatalog ==
  out.fn = "solveAssignment" =>
    \A k \in 1..Len(out.result) :
      \/ InCatalog(out.result[k].patternId)
      \/ /\ out.result[k].patternId
              = world.drones[out.result[k].droneId].currentPattern
         /\ ~InCatalog(world.drones[out.result[k].droneId].currentPattern)

\* C4 case: one call returned, for one drone, its current pattern that the
\* catalog does not have and, for another drone, a pattern of the catalog
\* that is not the drone's current pattern
C4_Witness ==
  /\ out.fn = "solveAssignment"
  /\ \E k \in 1..Len(out.result) :
       /\ out.result[k].patternId
            = world.drones[out.result[k].droneId].currentPattern
       /\ ~InCatalog(out.result[k].patternId)
  /\ \E k \in 1..Len(out.result) :
       /\ out.result[k].patternId
            # world.drones[out.result[k].droneId].currentPattern
       /\ InCatalog(out.result[k].patternId)

\* The drone and the pattern of the k-th assignment of the returned list
Drone(k) == world.drones[out.result[k].droneId]

Assigned(k) == out.result[k].patternId

\* The patterns assigned before the k-th assignment of the returned list
Earlier(k) ==
  [id \in { out.result[m].droneId : m \in 1..(k - 1) } |->
     out.result[CHOOSE m \in 1..(k - 1) : out.result[m].droneId = id].patternId]

\* The pattern the call assigned to drone j, else j's current pattern
FinalPattern(j) ==
  IF \E m \in 1..Len(out.result) : out.result[m].droneId = j
  THEN out.result[CHOOSE m \in 1..Len(out.result) :
                    out.result[m].droneId = j].patternId
  ELSE world.drones[j].currentPattern

\* The pattern assigned to drone j before the k-th assignment, else j's
\* current pattern
EarlierPattern(k, j) ==
  IF j \in DOMAIN Earlier(k) THEN Earlier(k)[j]
  ELSE world.drones[j].currentPattern

\* The neighbours stored for the drone of the k-th assignment that are in
\* the world model
KnownNeighbors(k) == Range(Drone(k).coordinate.epsilon.neighbors) \cap DOMAIN world.drones

Separation(k, j) ==
  vec3Distance(Drone(k).lastTelemetry.position,
               world.drones[j].lastTelemetry.position)

\* The k-th assignment was chosen by scored selection: no forced exit with
\* a target of the catalog applied and a candidate survived the filters
Scored(k) ==
  /\ LET target == FirstTrueExit(Drone(k))
     IN  target = None \/ ~InCatalog(target[1])
  /\ compatibleCandidates(Drone(k), world, catalog, Earlier(k)) # << >>

C6_AsStated ==
  out.fn = "solveAssignment" =>
    \A k \in 1..Len(out.result) :
      (Drone(k).currentPattern # << >> /\ Assigned(k) # Drone(k).currentPattern)
        => isPatternTransitionValid(catalog, Drone(k).currentPattern, Assigned(k))

\* C6: every returned (d, p) that was chosen by scored selection, with d
\* holding a pattern other than p, is a valid pattern transition from d's
\* current pattern.
C6_ScoredTransitionValid ==
  out.fn = "solveAssignment" =>
    \A k \in 1..Len(out.result) :
      (/\ Scored(k)
       /\ Drone(k).currentPattern # << >>
       /\ Assigned(k) # Drone(k).currentPattern)
        => isPatternTransitionValid(catalog, Drone(k).currentPattern, Assigned(k))

\* C6 case: scored selection moved a drone off the pattern it held
C6_Witness ==
  /\ out.fn = "solveAssignment"
  /\ \E k \in 1..Len(out.result) :
       /\ Scored(k)
       /\ Drone(k).currentPattern # << >>
       /\ Assigned(k) # Drone(k).currentPattern

\* The euclidean distance between the last reported positions of two drones
Distance(i, j) ==
  vec3Distance(world.drones[i].lastTelemetry.position,
               world.drones[j].lastTelemetry.position)

Neighbors(i) == Range(world.drones[i].coordinate.epsilon.neighbors)

\* C7 as stated: at the start of every tick, every drone of the world model is
\* within commRange of every drone of the world model that its stored
\* neighbour list names.
C7_AsStated ==
  [][IsTick =>
       \A i \in DOMAIN world.drones :
         \A j \in Neighbors(i) \cap DOMAIN world.drones :
           Distance(i, j) <= world.config.commRange]_vars

\* C8 as stated: in every reachable state, for all drones i # j of the world
\* model, i is in the stored neighbour list of j exactly when the two are
\* within commRange and neither is stale.
C8_AsStated ==
  \A i \in DOMAIN world.drones : \A j \in DOMAIN world.drones \ { i } :
    i \in Neighbors(j)
      <=> /\ Distance(i, j) <= world.config.commRange
          /\ ~world.drones[i].stale
          /\ ~world.drones[j].stale

\* C9 as stated, for the drones registered with a trait that is valid for
\* their hardware: in every reachable state the stored (rho, tau, sigma, chi,
\* lambda) of the drone passes validateDependencies.
C9_AsStated ==
  \A id \in DOMAIN world.drones :
    LET c == world.drones[id].coordinate
    IN  c.tau \in Range(VALID_TRAITS(c.rho))
          => validateDependencies(c.rho, c.tau, c.sigma, c.chi, c.lambda) = NULL

\* role_dependents(i), from the neighbour graph stored for drone i
RoleDependents(i) ==
  LET chi == world.drones[i].coordinate.chi
      graph == world.drones[i].coordinate.epsilon
  IN  (IF chi = "leader" THEN Range(graph.followers) ELSE { })
        \cup (IF chi = "follower" /\ graph.leader # NULL
              THEN { graph.leader } ELSE { })
        \cup (IF chi = "relay" /\ graph.relay_target # NULL
              THEN { graph.relay_target } ELSE { })
        \cup (IF graph.relay_source # NULL THEN { graph.relay_source } ELSE { })

\* Every id that the neighbour graph stored for drone i names
StoredEpsilon(i) ==
  LET graph == world.drones[i].coordinate.epsilon
  IN  Range(graph.neighbors) \cup Range(graph.followers)
        \cup ({ graph.leader, graph.relay_target, graph.relay_source } \ { NULL })

\* C10: computeBlastRadius(i) returns exactly i, the stored neighbours of i
\* and the role dependents of i, each once; for an id that is not in the
\* world model it returns exactly i; nothing outside i's own stored neighbour
\* graph is included.
C10_BlastRadiusExact ==
  out.fn = "computeBlastRadius" =>
    LET i == out.changedDroneId
        returned == Range(out.result)
    IN  /\ Len(out.result) = Cardinality(returned)
        /\ IF i \in DOMAIN world.drones
           THEN /\ returned = { i }
                     \cup Range(world.drones[i].coordinate.epsilon.neighbors)
                     \cup RoleDependents(i)
                /\ returned \subseteq { i } \cup StoredEpsilon(i)
           ELSE returned = { i }

\* C10 case: the blast radius of a leader that has a follower and a neighbour
\* that is not a follower
C10_Witness ==
  /\ out.fn = "computeBlastRadius"
  /\ out.changedDroneId \in DOMAIN world.drones
  /\ LET drone == world.drones[out.changedDroneId]
     IN  /\ drone.coordinate.chi = "leader"
         /\ drone.coordinate.epsilon.followers # << >>
         /\ Range(drone.coordinate.epsilon.neighbors)
              \ Range(drone.coordinate.epsilon.followers) # { }

\* C11: for one world model and one predicate (or none), the affected set of
\* a changed set is contained in the affected set of every changed set that
\* contains it.
C11_CascadeMonotone ==
  out.fn = "computeCascadingBlastRadius" =>
    Range(out.call.affected) \subseteq Range(out.largerCall.affected)

\* C11 case: with a predicate, the larger changed set has a drone the smaller
\* one lacks, the cascade of the smaller set went beyond its initial radius,
\* and the larger set affects strictly more
C11_Witness ==
  /\ out.fn = "computeCascadingBlastRadius"
  /\ out.wouldChangePattern # None
  /\ out.changedDroneIds # << >>
  /\ Range(out.larger) \ Range(out.changedDroneIds) # { }
  /\ out.call.rounds > 0
  /\ Range(out.call.affected)
       # Range(computeCascadingBlastRadius(out.changedDroneIds, world, None))
  /\ Range(out.call.affected) # Range(out.largerCall.affected)

\* C12 as stated: the while loop of a call iterates at most N times, N the
\* number of drones of the world model that are not stale.
C12_AsStated ==
  out.fn = "computeCascadingBlastRadius" =>
    out.call.rounds <= Len(getActiveDroneIds(world))

\* C12: every call returns, and its while loop iterates at most N times, N
\* the number of drones of the world model, stale drones included.
C12_RoundsAtMostDrones ==
  out.fn = "computeCascadingBlastRadius" =>
    /\ out.call.rounds <= Len(world.order)
    /\ out.largerCall.rounds <= Len(world.order)

\* C12 case: the predicate is true for every drone, a drone is stale, and the
\* loop ran as many times as the world model has drones, more than once
C12_Witness ==
  /\ out.fn = "computeCascadingBlastRadius"
  /\ out.wouldChangePattern = Some(Range(world.order))
  /\ \E id \in DOMAIN world.drones : world.drones[id].stale
  /\ out.call.rounds = Len(world.order)
  /\ out.call.rounds > 1

\* C13: in one call the predicate is invoked at most once for any id and
\* never for an id of the initial changed set, so it is invoked at most as
\* many times as there are affected ids outside the initial changed set.
C13_PredicateOncePerDrone ==
  out.fn = "computeCascadingBlastRadius" =>
    LET calls == out.call.calls
    IN  /\ \A m, n \in 1..Len(calls) : calls[m] = calls[n] => m = n
        /\ Range(calls) \cap Range(out.changedDroneIds) = { }
        /\ Len(calls) <= Cardinality(Range(out.call.affected)
                                       \ Range(out.changedDroneIds))

\* C13 case: the predicate was invoked for two drones that are stored
\* neighbours of each other, and was true for the first of them
C13_Witness ==
  /\ out.fn = "computeCascadingBlastRadius"
  /\ \E m, n \in 1..Len(out.call.calls) :
       /\ m < n
       /\ out.call.calls[m] \in out.wouldChangePattern[1]
       /\ out.call.calls[m] \in DOMAIN world.drones
       /\ out.call.calls[n]
            \in Range(world.drones[out.call.calls[m]].coordinate.epsilon.neighbors)

\* The pattern of the catalog with this id
PatternOf(id) ==
  catalog.patterns[CHOOSE i \in 1..Len(catalog.patterns) : catalog.patterns[i].id = id]

\* C14 as stated: isPatternTransitionValid(from, to) is true exactly when both
\* patterns are in the catalog, to is in from's valid_to, from is in to's
\* valid_from and isTransitionValid holds of the two sigma.
C14_AsStated ==
  out.fn = "isPatternTransitionValid" =>
    (out.result
       <=> /\ InCatalog(out.fromId)
           /\ InCatalog(out.toId)
           /\ out.toId \in Range(PatternOf(out.fromId).postconditions.valid_to)
           /\ out.fromId \in Range(PatternOf(out.toId).preconditions.valid_from)
           /\ isTransitionValid(PatternOf(out.fromId).core.sigma,
                                PatternOf(out.toId).core.sigma))

\* C15 as stated: isPatternTransitionValid(id, id) is true for every id of the
\* catalog.
C15_AsStated ==
  (/\ out.fn = "isPatternTransitionValid"
   /\ out.fromId = out.toId
   /\ InCatalog(out.fromId))
    => out.result

\* The rules of the catalog, by index, that match the pair of the call in
\* one order or the other
MatchingRules ==
  { i \in 1..Len(catalog.compatibility) :
      LET rule == catalog.compatibility[i]
      IN  \/ /\ matchesPattern(out.patternA, rule.pattern_a)
             /\ matchesPattern(out.patternB, rule.pattern_b)
          \/ /\ matchesPattern(out.patternA, rule.pattern_b)
             /\ matchesPattern(out.patternB, rule.pattern_a) }

\* 2 for an exact glob, 1 for a glob with a star, 0 for the bare star
SideScore(glob) ==
  IF glob = << "*" >> THEN 0 ELSE IF "*" \in Range(glob) THEN 1 ELSE 2

Specificity(i) ==
  SideScore(catalog.compatibility[i].pattern_a)
    + SideScore(catalog.compatibility[i].pattern_b)

\* The matching rules of highest specificity
MostSpecific ==
  { i \in MatchingRules : \A j \in MatchingRules : Specificity(i) >= Specificity(j) }

\* C16: when no rule matches, isCompatible is true; when one matching rule
\* is more specific than every other matching rule, isCompatible is false if
\* that rule is incompatible and otherwise separation >= its min_separation_m,
\* whatever the less specific rules say.
C16_MostSpecificRuleDecides ==
  out.fn = "isCompatible" =>
    /\ MatchingRules = { } => out.result
    /\ \A i \in MostSpecific :
         MostSpecific = { i } =>
           (out.result
              <=> /\ catalog.compatibility[i].compatible
                  /\ out.separation_m >= catalog.compatibility[i].min_separation_m)

\* C16 case: the one most specific rule is not the first matching rule of
\* the list, and a less specific matching rule would decide the other way
C16_Witness ==
  /\ out.fn = "isCompatible"
  /\ \E i \in MostSpecific :
       /\ MostSpecific = { i }
       /\ \E j \in MatchingRules :
            /\ j < i
            /\ Specificity(j) < Specificity(i)
            /\ out.result
                 # (/\ catalog.compatibility[j].compatible
                    /\ out.separation_m >= catalog.compatibility[j].min_separation_m)

\* C17: isCompatible(a, b, s) = isCompatible(b, a, s).
C17_CompatibilitySymmetric ==
  out.fn = "isCompatible" => out.result = out.exchanged

\* C17 case: two different ids, decided by a rule that matches them in one
\* order only, and the result depends on that rule
C17_Witness ==
  /\ out.fn = "isCompatible"
  /\ out.patternA # out.patternB
  /\ ~out.result
  /\ \E i \in MostSpecific :
       LET rule == catalog.compatibility[i]
       IN  /\ MostSpecific = { i }
           /\ ~(/\ matchesPattern(out.patternA, rule.pattern_a)
                /\ matchesPattern(out.patternB, rule.pattern_b))
           /\ matchesPattern(out.patternA, rule.pattern_b)
           /\ matchesPattern(out.patternB, rule.pattern_a)

IsTelemetryCallback ==
  /\ ops' = ops + 1
  /\ UNCHANGED << timers, stopLog, initialPattern >>
  /\ DOMAIN world'.drones = DOMAIN world.drones

\* C19 as stated: once stop() has been called, a telemetry callback for a
\* registered drone leaves the delta, the epsilon, the lastUpdate and the
\* stale flag of that drone unchanged (a callback touches one drone only, so
\* "that drone" is every drone of the world model)
C19_AsStated ==
  [][(stopLog.calls > 0 /\ IsTelemetryCallback) =>
       \A id \in DOMAIN world.drones :
         /\ world'.drones[id].coordinate.delta = world.drones[id].coordinate.delta
         /\ world'.drones[id].coordinate.epsilon = world.drones[id].coordinate.epsilon
         /\ world'.drones[id].lastUpdate = world.drones[id].lastUpdate
         /\ world'.drones[id].stale = world.drones[id].stale]_vars

\* C20 as stated: after every call of stop() no tick timer is live, a land
\* command was attempted for each drone with a land or grounded pattern for
\* its hardware, comms.disconnect() was called and onShutdown was fired
C20_AsStated ==
  [][(stopLog'.calls = stopLog.calls + 1) =>
       /\ timers' = 0
       /\ stopLog'.attempted = stopLog'.due
       /\ stopLog'.disconnected
       /\ stopLog'.shutdown]_vars

\* The assignments of the last tick whose pattern is in the catalog
Applicable == SelectSeq(last.assignments, LAMBDA a : InCatalog(a.patternId))

\* C21: a tick whose sends are all rejected (comms not connected) returns,
\* and leaves the world model, the role tick counts, the returned assignments
\* and the list of commands handed to sendCommand exactly as the same tick
\* with every send delivered does; so no assignment is skipped and the ticks
\* after it start from the same coordinator state
C21_RejectedSendSwallowed ==
  [][(IsTick /\ ~connected) =>
       LET t == tick([CoordinatorState EXCEPT !.connected = TRUE])
       IN  /\ tickCount' = t.tickCount
           /\ world' = t.world
           /\ roleTickCounts' = t.roleTickCounts
           /\ last'.assignments = t.assignments
           /\ Len(last'.sent) = Len(t.sent)
           /\ \A i \in 1..Len(t.sent) :
                /\ last'.sent[i].droneId = t.sent[i].droneId
                /\ last'.sent[i].patternId = t.sent[i].patternId
                /\ last'.sent[i].rejected]_vars

\* A tick has handed commands for two different drones to a comms that
\* rejected every one of them, each of them is applied to the world model, and
\* the timer that runs the next tick is live
C21_Witness ==
  /\ ~connected
  /\ timers > 0
  /\ last.tick >= 1
  /\ Len(last.sent) >= 2
  /\ \A i \in 1..Len(last.sent) : last.sent[i].rejected
  /\ Len(Applicable) = Len(last.sent)
  /\ \E i, j \in 1..Len(Applicable) :
       /\ Applicable[i].droneId # Applicable[j].droneId
       /\ world.drones[Applicable[i].droneId].currentPattern = Applicable[i].patternId
       /\ world.drones[Applicable[j].droneId].currentPattern = Applicable[j].patternId

\* C22: a run of tick() leaves the telemetry of every drone (delta, the last
\* telemetry, lastUpdate and the neighbour graph computed from it) as it was
\* when tick() called markStaleDrones, and its forced-exit scan is the scan of
\* that telemetry: no telemetry callback takes effect inside a tick
C22_TickAtomicForTelemetry ==
  [][IsTick =>
       /\ DOMAIN world'.drones = DOMAIN world.drones
       /\ \A id \in DOMAIN world.drones :
            /\ world'.drones[id].coordinate.delta = world.drones[id].coordinate.delta
            /\ world'.drones[id].coordinate.epsilon = world.drones[id].coordinate.epsilon
            /\ world'.drones[id].lastTelemetry = world.drones[id].lastTelemetry
            /\ world'.drones[id].lastUpdate = world.drones[id].lastUpdate
       /\ last'.forcedChanges = forcedChangesOf(markStaleDrones(world, now), catalog)]_vars

\* A tick has run all its phases: a forced exit fired, roles changed and
\* assignments were solved and applied
C22_Witness ==
  /\ last.tick > 0
  /\ Len(last.forcedChanges) > 0
  /\ Len(last.roleChanges.keys) > 0
  /\ Len(last.assignments) > 1
  /\ Len(last.sent) > 1

\* The pattern id that the table built by the constructor maps to the number n
\* (the constructor numbers catalog.patterns.keys() from zero, in order)
PatternOfNumber(n) ==
  IF n + 1 \in 1..Len(catalog.patterns) THEN Some(catalog.patterns[n + 1].id)
  ELSE None

\* C23: the commands of a tick are, in order, the commands of its assignments
\* whose pattern is in the catalog; each carries the number of the assigned
\* pattern, which maps back to exactly that pattern id; distinct pattern ids
\* of the catalog have distinct numbers
C23_NumericIdMapsBack ==
  /\ Len(last.sent) = Len(Applicable)
  /\ \A i \in 1..Len(last.sent) :
       /\ last.sent[i].droneId = Applicable[i].droneId
       /\ PatternOfNumber(last.sent[i].patternId) = Some(Applicable[i].patternId)
  /\ \A i, j \in 1..Len(catalog.patterns) :
       catalog.patterns[i].id # catalog.patterns[j].id =>
         patternIdMap(catalog, catalog.patterns[i].id)
           # patternIdMap(catalog, catalog.patterns[j].id)

\* A tick has sent commands with two different numbers, one of them not zero
C23_Witness ==
  /\ last.tick > 0
  /\ \E i, j \in 1..Len(last.sent) :
       /\ last.sent[i].patternId > 0
       /\ last.sent[i].patternId # last.sent[j].patternId

\* C24 as stated: when the world model holds a single drone that is not
\* stale, has no neighbours, a battery at or above the charge threshold and a
\* current pattern of the catalog none of whose forced exits fires, the
\* assignments tick() returns contain that drone with its current pattern
C24_AsStated ==
  [][(/\ IsTick
      /\ Len(world.order) = 1
      /\ \A id \in DOMAIN world.drones :
           /\ id \in NonStaleAtTick
           /\ world.drones[id].coordinate.epsilon.neighbors = << >>
           /\ world.drones[id].coordinate.delta.battery.percentage
                >= config.roleConfig.batteryChargeThreshold
           /\ InCatalog(world.drones[id].currentPattern)
           /\ FirstTrueExit(world.drones[id]) = None)
       => \A id \in DOMAIN world.drones :
            \E k \in 1..Len(last'.assignments) :
              /\ last'.assignments[k].droneId = id
              /\ last'.assignments[k].patternId = world.drones[id].currentPattern]_vars

\* C25: a tick at which the role engine emits, for a drone it has emitted a
\* change for at tick t, a role other than charger-inbound is at least
\* roleHysteresisTickCount ticks after t
C25_HysteresisRespected ==
  [][IsTick =>
       \A id \in Range(last'.roleChanges.keys) :
         (id \in DOMAIN out.changedAt /\ last'.roleChanges.val[id] # "charger-inbound")
           => tickCount' >= out.changedAt[id] + config.roleConfig.roleHysteresisTickCount]_vars

\* Inside the hysteresis window of a change it emitted for a drone, the role
\* engine has emitted charger-inbound for that drone
C25_Witness ==
  /\ out.fn = "tick"
  /\ \E id \in Range(last.roleChanges.keys) :
       /\ id \in DOMAIN out.previous
       /\ out.changedAt[id] = last.tick
       /\ last.tick < out.previous[id] + config.roleConfig.roleHysteresisTickCount
       /\ last.roleChanges.val[id] = "charger-inbound"
       /\ roleTickCounts[id] = 0

\* The modes reached from the modes of `seen` through transitions that
\* isTransitionValid accepts
RECURSIVE ReachableModes(_)
ReachableModes(seen) ==
  LET next == { to \in Range(BEHAVIORAL_MODES) :
                  \E from \in seen : isTransitionValid(from, to) }
  IN  IF next \subseteq seen THEN seen ELSE ReachableModes(seen \cup next)

\* C26: wherever a walk through the modes stands, grounded is reachable from
\* there through transitions that isTransitionValid accepts
C26_GroundedReachable ==
  out.fn = "isTransitionValid" => "grounded" \in ReachableModes({ out.sigma })

\* A walk that started in docked has come to grounded in four accepted
\* transitions
C26_Witness ==
  /\ out.fn = "isTransitionValid"
  /\ out.start = "docked"
  /\ out.sigma = "grounded"
  /\ out.steps = 4

\* The active drones that rule 5 may make leader when no relay is needed:
\* stored role performer or reserve, battery at or above the charge threshold
EligibleLeaders ==
  { id \in Range(getActiveDroneIds(world)) :
      /\ world.drones[id].coordinate.chi \in { "performer", "reserve" }
      /\ Battery(world.drones[id]) >= config.roleConfig.batteryChargeThreshold }

\* C27 as stated: when the formation needs a leader and no active drone is
\* leader, the drone assignRoles makes leader is an eligible drone, and no
\* other eligible drone has a battery more than 0.001 higher
C27_AsStated ==
  (/\ out.fn = "assignRoles"
   /\ formation.needsLeader
   /\ \A id \in Range(getActiveDroneIds(world)) :
        world.drones[id].coordinate.chi # "leader")
  => \A id \in Range(out.result.keys) :
       out.result.val[id] = "leader" =>
         /\ id \in EligibleLeaders
         /\ \A other \in EligibleLeaders :
              Battery(world.drones[other]) - Battery(world.drones[id]) <= 1

\* The least set that contains S and, for every member j outside C for which
\* the predicate holds, the blast radius of j
RECURSIVE LeastClosed(_, _, _)
LeastClosed(S, C, P) ==
  LET more == UNION { Range(computeBlastRadius(j, world)) : j \in (S \ C) \cap P }
  IN  IF more \subseteq S THEN S ELSE LeastClosed(S \cup more, C, P)

\* C28: with a predicate P, the affected set of a changed set C is the least
\* set that contains the blast radius of every member of C and the blast
\* radius of each of its own members outside C for which P holds; the call
\* with C in the opposite order returns the same set
C28_LeastClosedSet ==
  (out.fn = "computeCascadingBlastRadius" /\ out.wouldChangePattern # None) =>
    LET C == Range(out.changedDroneIds)
        initial == UNION { Range(computeBlastRadius(i, world)) : i \in C }
    IN  /\ Range(out.call.affected) = LeastClosed(initial, C, out.wouldChangePattern[1])
        /\ Range(computeCascadingBlastRadius(Reverse(out.changedDroneIds), world,
                                             out.wouldChangePattern))
             = Range(out.call.affected)

\* A call with two changed ids took two rounds, reached a drone outside the
\* initial blast radii, and asked the predicate about a drone for which it is
\* false
C28_Witness ==
  /\ out.fn = "computeCascadingBlastRadius"
  /\ out.wouldChangePattern # None
  /\ Len(out.changedDroneIds) >= 2
  /\ out.call.rounds >= 2
  /\ Range(out.call.affected)
       # UNION { Range(computeBlastRadius(i, world)) : i \in Range(out.changedDroneIds) }
  /\ \E j \in Range(out.call.affected) \ Range(out.changedDroneIds) :
       j \notin out.wouldChangePattern[1]

\* The other drones of the world model within commRange of the reported
\* position, in the order of the drone map
InRangeOf(droneId, position) ==
  SelectSeq(world.order,
            LAMBDA j : /\ j # droneId
                       /\ vec3Distance(position, world.drones[j].lastTelemetry.position)
                            <= world.config.commRange)

\* C29 as stated: after updateTelemetry for a follower with several leaders
\* within commRange, the leader of its neighbour graph is the first of them
\* in the order of the drone map
C29_AsStated ==
  (/\ out.fn = "updateTelemetry"
   /\ out.droneId \in DOMAIN world.drones
   /\ world.drones[out.droneId].coordinate.chi = "follower")
  => LET leaders == SelectSeq(InRangeOf(out.droneId, out.telemetry.position),
                              LAMBDA j : world.drones[j].coordinate.chi = "leader")
     IN  Len(leaders) >= 2 =>
           world.drones[out.droneId].coordinate.epsilon.leader = leaders[1]

\* C30: immediately after updateTelemetry for a drone of the world model, the
\* neighbours of its graph are exactly the other drones of the world model,
\* stale or not, whose last reported position is within commRange of the
\* reported position, and nothing else of the other drones has changed;
\* updateTelemetry for an unknown id changes nothing
C30_NeighborsExact ==
  out.fn = "updateTelemetry" =>
    IF out.droneId \in DOMAIN out.before.drones
    THEN LET neighbors == world.drones[out.droneId].coordinate.epsilon.neighbors
         IN  /\ Range(neighbors)
                  = { j \in DOMAIN out.before.drones :
                        /\ j # out.droneId
                        /\ vec3Distance(out.telemetry.position,
                                        out.before.drones[j].lastTelemetry.position)
                             <= out.before.config.commRange }
             /\ Len(neighbors) = Cardinality(Range(neighbors))
             /\ world.order = out.before.order
             /\ \A j \in DOMAIN world.drones \ { out.droneId } :
                  world.drones[j] = out.before.drones[j]
    ELSE world = out.before

\* A drone reports with a stale drone at exactly commRange, which becomes its
\* neighbour, and another drone farther away, which does not
C30_Witness ==
  /\ out.fn = "updateTelemetry"
  /\ out.droneId \in DOMAIN world.drones
  /\ Len(world.order) = 3
  /\ \E j \in DOMAIN world.drones \ { out.droneId } :
       /\ world.drones[j].stale
       /\ vec3Distance(out.telemetry.position,
                       world.drones[j].lastTelemetry.position)
            = world.config.commRange
       /\ j \in Range(world.drones[out.droneId].coordinate.epsilon.neighbors)
  /\ \E j \in DOMAIN world.drones \ { out.droneId } :
       j \notin Range(world.drones[out.droneId].coordinate.epsilon.neighbors)

\* What rules 1 to 7 leave in the changes Map, before the hysteresis
ProposedChanges ==
  LET cfg == config.roleConfig
      activeIds == getActiveDroneIds(world)
      drones == [i \in 1..Len(activeIds) |-> world.drones[activeIds[i]]]
      r0 == [eff |-> [id \in Range(activeIds) |-> world.drones[id].coordinate.chi],
             keys |-> << >>, val |-> EmptyFn]
  IN  Rule7(drones, formation,
        Rule6(drones, formation,
          Rule5(drones, formation, cfg,
            Rule4(drones, coverage, cfg,
              Rule3(drones, formation,
                Rule2(drones, cfg, Rule1(drones, cfg, r0)))))))

\* C31: assignRoles with a tick-count map drops the change rules 1 to 7
\* propose for a drone exactly when the change is not to charger-inbound and
\* the drone has an entry in the map below roleHysteresisTickCount; a change
\* that is kept keeps its role
C31_DroppedIffCounterLow ==
  (out.fn = "assignRoles" /\ out.withCounts) =>
    /\ Range(out.result.keys) \subseteq Range(ProposedChanges.keys)
    /\ \A id \in Range(ProposedChanges.keys) :
         /\ id \notin Range(out.result.keys)
              <=> /\ ProposedChanges.val[id] # "charger-inbound"
                  /\ id \in DOMAIN roleTickCounts
                  /\ roleTickCounts[id] < config.roleConfig.roleHysteresisTickCount
         /\ id \in Range(out.result.keys)
              => out.result.val[id] = ProposedChanges.val[id]

\* One call in which a change is dropped for a counter one tick short, a
\* change of a drone without entry is kept, a change of a drone whose counter
\* has reached roleHysteresisTickCount is kept, and a change to
\* charger-inbound is kept although the counter of the drone is short
C31_Witness ==
  /\ out.fn = "assignRoles" /\ out.withCounts
  /\ \E id \in Range(ProposedChanges.keys) :
       /\ id \notin Range(out.result.keys)
       /\ roleTickCounts[id] = config.roleConfig.roleHysteresisTickCount - 1
  /\ \E id \in Range(out.result.keys) :
       /\ out.result.val[id] = "charger-inbound"
       /\ id \in DOMAIN roleTickCounts
       /\ roleTickCounts[id] < config.roleConfig.roleHysteresisTickCount
  /\ \E id \in Range(out.result.keys) :
       /\ out.result.val[id] # "charger-inbound"
       /\ \/ id \notin DOMAIN roleTickCounts
          \/ roleTickCounts[id] = config.roleConfig.roleHysteresisTickCount

\* C32: the role tick counters change only in a tick whose number is a
\* multiple of roleReassignmentInterval; such a tick ends with the counter of
\* every drone of its role-change map at 0, the counter of every other active
\* drone one higher (1 if it had none), and every other counter as it was
C32_CountersOnlyInPeriodicTicks ==
  [][IF IsTick /\ tickCount' % config.roleReassignmentInterval = 0
     THEN LET active == { id \in DOMAIN world'.drones : ~world'.drones[id].stale }
              changed == Range(last'.roleChanges.keys)
          IN  /\ DOMAIN roleTickCounts'
                   = DOMAIN roleTickCounts \cup active \cup changed
              /\ \A id \in DOMAIN roleTickCounts' :
                   roleTickCounts'[id] =
                     IF id \in changed THEN 0
                     ELSE IF id \in active
                     THEN (IF id \in DOMAIN roleTickCounts
                           THEN roleTickCounts[id] ELSE 0) + 1
                     ELSE roleTickCounts[id]
     ELSE roleTickCounts' = roleTickCounts]_vars

\* After a periodic tick that follows a tick with a role change, an active
\* drone outside the role-change map has a counter above 0, and a stale drone
\* outside the map keeps the counter it had
C32_Witness ==
  /\ last.tick > 1
  /\ last.tick % config.roleReassignmentInterval = 0
  /\ \E id \in DOMAIN world.drones \ Range(last.roleChanges.keys) :
       /\ ~world.drones[id].stale
       /\ id \in DOMAIN roleTickCounts
       /\ roleTickCounts[id] > 0
  /\ \E id \in DOMAIN world.drones \ Range(last.roleChanges.keys) :
       /\ world.drones[id].stale
       /\ id \in DOMAIN roleTickCounts

\* The places in the catalog of the patterns of the hardware of the drone of
\* the k-th assignment
OfHardware(k) ==
  { i \in 1..Len(catalog.patterns) :
      /\ catalog.patterns[i].core.rho = Drone(k).coordinate.rho
      /\ catalog.patterns[i].core.tau = Drone(k).coordinate.tau }

\* The k-th assignment was chosen by a fallback: no forced exit applied and
\* no candidate survived the filters
FellBack(k) ==
  /\ FirstTrueExit(Drone(k)) = None
  /\ compatibleCandidates(Drone(k), world, catalog, Earlier(k)) = << >>

\* C33: an assignment chosen by a fallback is a hover pattern of the drone's
\* hardware of lowest battery_floor if the catalog has a hover pattern of
\* that hardware; else a pattern of that hardware of battery_floor 0, one
\* with sigma land or grounded if there is one and the first in catalog order
\* if not; else the drone's current pattern
C33_FallbackOrder ==
  out.fn = "solveAssignment" =>
    \A k \in 1..Len(out.result) :
      FellBack(k) =>
        LET floor(i) == catalog.patterns[i].preconditions.battery_floor
            hovers == { i \in OfHardware(k) :
                          catalog.patterns[i].core.sigma = "hover" }
            zero == { i \in OfHardware(k) : floor(i) = 0 }
            landing == { i \in zero :
                           catalog.patterns[i].core.sigma \in { "land", "grounded" } }
        IN  IF hovers # {}
            THEN \E i \in hovers :
                   /\ Assigned(k) = catalog.patterns[i].id
                   /\ \A j \in hovers : floor(i) <= floor(j)
            ELSE IF landing # {}
            THEN \E i \in landing : Assigned(k) = catalog.patterns[i].id
            ELSE IF zero # {}
            THEN \E i \in zero :
                   /\ Assigned(k) = catalog.patterns[i].id
                   /\ \A j \in zero : i <= j
            ELSE Assigned(k) = Drone(k).currentPattern

\* A fallback chose the hover pattern of lowest battery_floor, which is not
\* the first hover pattern of the catalog
C33_Witness ==
  /\ out.fn = "solveAssignment"
  /\ \E k \in 1..Len(out.result) :
       /\ FellBack(k)
       /\ Assigned(k) = HW
       /\ \E i \in OfHardware(k) :
            /\ catalog.patterns[i].core.sigma = "hover"
            /\ catalog.patterns[i].id # HW
            /\ \A j \in OfHardware(k) : catalog.patterns[j].id = HW => i < j

\* The score of pattern p for the drone of the k-th assignment: 10 for the
\* drone's current pattern, 5 for each objective that prefers the sigma of p,
\* 2 for the drone's role, less 5 for a battery_floor above 0.3 on a drone
\* below half battery
PreferredSigma(type) ==
  CASE type = "formation" -> "formation-hold"
    [] type = "orbit" -> "orbit"
    [] type = "translate" -> "translate"
    [] type = "hover" -> "hover"
    [] type = "land-all" -> "land"
    [] OTHER -> NULL

ClaimedScore(k, p) ==
  (IF p.id = Drone(k).currentPattern THEN 10 ELSE 0)
  + 5 * Cardinality({ o \in 1..Len(objectives) :
                        PreferredSigma(objectives[o].type) = p.core.sigma })
  + (IF p.core.chi = Drone(k).coordinate.chi THEN 2 ELSE 0)
  - (IF /\ p.preconditions.battery_floor > 300
        /\ Drone(k).lastTelemetry.battery.percentage < 500
     THEN 5 ELSE 0)

\* C34: an assignment chosen by scored selection is the surviving candidate
\* of maximal score that comes first in catalog order
C34_MaximalScoreFirstInCatalog ==
  out.fn = "solveAssignment" =>
    \A k \in 1..Len(out.result) :
      Scored(k) =>
        LET candidates == compatibleCandidates(Drone(k), world, catalog, Earlier(k))
        IN  \E i \in 1..Len(candidates) :
              /\ Assigned(k) = candidates[i].id
              /\ \A j \in 1..Len(candidates) :
                   ClaimedScore(k, candidates[j]) <= ClaimedScore(k, candidates[i])
              /\ \A j \in 1..(i - 1) :
                   ClaimedScore(k, candidates[j]) < ClaimedScore(k, candidates[i])

\* Scored selection passed over the first surviving candidate for one of
\* higher score; a later candidate, which an objective prefers, would have
\* won but for its battery penalty
C34_Witness ==
  /\ out.fn = "solveAssignment"
  /\ \E k \in 1..Len(out.result) :
       /\ Scored(k)
       /\ LET candidates == compatibleCandidates(Drone(k), world, catalog, Earlier(k))
          IN  \E i, j \in 1..Len(candidates) :
                /\ 1 < i /\ i < j
                /\ Assigned(k) = candidates[i].id
                /\ ClaimedScore(k, candidates[j]) + 5 > ClaimedScore(k, candidates[i])
                /\ candidates[j].preconditions.battery_floor > 300
                /\ Drone(k).lastTelemetry.battery.percentage < 500

\* C35 as stated: at the end of a tick in which the role engine emitted the
\* change of drone d to role r, the world model stores chi = r for d
C35_AsStated ==
  \A id \in Range(last.roleChanges.keys) :
    id \in DOMAIN world.drones
      => world.drones[id].coordinate.chi = last.roleChanges.val[id]

\* C36 as stated: a tick returns no assignment for a drone that is stale at
\* the tick, sends it no command, and leaves its current pattern and its
\* structural coordinates as they were
C36_AsStated ==
  [][IsTick =>
       \A id \in DOMAIN world'.drones :
         world'.drones[id].stale =>
           /\ \A k \in 1..Len(last'.assignments) : last'.assignments[k].droneId # id
           /\ \A k \in 1..Len(last'.sent) : last'.sent[k].droneId # id
           /\ world'.drones[id].currentPattern = world.drones[id].currentPattern
           /\ \A f \in { "sigma", "kappa", "chi", "lambda", "tau", "rho" } :
                world'.drones[id].coordinate[f] = world.drones[id].coordinate[f]]_vars

\* C37 as stated: a walk along transitions isTransitionValid accepts that
\* starts at grounded and is at hover, translate or orbit has been in takeoff
C37_AsStated ==
  (/\ out.fn = "isTransitionValid"
   /\ out.start = "grounded"
   /\ out.sigma \in { "hover", "translate", "orbit" })
  => out.tookOff

\* C38 as stated: once the output of assignRoles, called without a
\* tick-count map, is laid over the stored roles, every active drone whose
\* battery is below batteryChargeThreshold holds a role of the charging
\* lifecycle
C38_AsStated ==
  (out.fn = "assignRoles" /\ ~out.withCounts) =>
    \A id \in DOMAIN world.drones :
      ( /\ ~world.drones[id].stale
        /\ world.drones[id].lastTelemetry.battery.percentage
             < config.roleConfig.batteryChargeThreshold )
      => (IF id \in Range(out.result.keys) THEN out.result.val[id]
          ELSE world.drones[id].coordinate.chi)
           \in { "charging", "charger-inbound", "charger-outbound" }

\* C39 as stated: assignRoles with a tick-count map, a formation that needs
\* a leader, no active drone that is leader, and an active performer or
\* reserve of battery at or above batteryChargeThreshold without a counter
\* below roleHysteresisTickCount: the output makes some drone leader
C39_AsStated ==
  (/\ out.fn = "assignRoles" /\ out.withCounts
   /\ formation.needsLeader
   /\ \A id \in DOMAIN world.drones :
        ~world.drones[id].stale => world.drones[id].coordinate.chi # "leader"
   /\ \E id \in DOMAIN world.drones :
        /\ ~world.drones[id].stale
        /\ world.drones[id].coordinate.chi \in { "performer", "reserve" }
        /\ world.drones[id].lastTelemetry.battery.percentage
             >= config.roleConfig.batteryChargeThreshold
        /\ \/ id \notin DOMAIN roleTickCounts
           \/ roleTickCounts[id] >= config.roleConfig.roleHysteresisTickCount)
  => \E id \in Range(out.result.keys) : out.result.val[id] = "leader"

\* C40 as stated: whatever calls of start() and stop() came before, when
\* stop() is the call made last and every call has resolved, isRunning is
\* false and no interval timer that invokes tick() is live
C40_AsStated ==
  [][(stopLog'.calls = stopLog.calls + 1) => (~running' /\ timers' = 0)]_vars

====
